---------------------------- MODULE Spec2Model ----------------------------
(***************************************************************************)
(* CultureBridge-AI: the dimension -> rule matcher, the Dimension Profile   *)
(* Resolver, the stage engines with their rule-based fallbacks, the        *)
(* enrichment gateway and the pipeline orchestrator, as a state machine.   *)
(*                                                                         *)
(* Python values are modelled as follows.                                  *)
(*   dict      a function whose DOMAIN is the set of keys                  *)
(*   list      a sequence                                                  *)
(*   str       a sequence of one-character strings where the code looks    *)
(*             inside the text (startswith, slicing, `in`, lower()), an    *)
(*             atomic string where it only passes the text along           *)
(*   object    a dict that is shared between two holders is kept once, in  *)
(*             a variable, and the holders keep a reference to it          *)
(***************************************************************************)
EXTENDS Integers, Sequences, FiniteSets, TLC

\* ------------------------------------------------------------------------
\* Python helpers
\* ------------------------------------------------------------------------

\* d.get(k, default)
Get(d, k, default) == IF k \in DOMAIN d THEN d[k] ELSE default

\* the empty dict {}
EmptyDict == [k \in {} |-> 0]

\* s.startswith(p), on character sequences
StartsWith(s, p) == Len(s) >= Len(p) /\ SubSeq(s, 1, Len(p)) = p

\* s[n:]
SliceFrom(s, n) == SubSeq(s, n + 1, Len(s))

\* p in s  (substring test on character sequences)
Contains(s, p) ==
    \E i \in 0..(Len(s) - Len(p)) : SubSeq(s, i + 1, i + Len(p)) = p

DigitChars == <<"0", "1", "2", "3", "4", "5", "6", "7", "8", "9">>

IsDigit(c) == \E i \in 1..10 : DigitChars[i] = c

DigitValue(c) == (CHOOSE i \in 1..10 : DigitChars[i] = c) - 1

RECURSIVE DigitsToNat(_)
DigitsToNat(s) ==
    IF s = <<>> THEN 0
    ELSE 10 * DigitsToNat(SubSeq(s, 1, Len(s) - 1)) + DigitValue(s[Len(s)])

\* float(s) for the thresholds of the rule table: a non-empty run of decimal
\* digits converts to its number, anything else raises ValueError
\* (thresholds with a sign, a fraction or an exponent are outside the model).
PyFloat(s) ==
    IF s # <<>> /\ \A i \in 1..Len(s) : IsDigit(s[i])
    THEN [ok |-> TRUE, val |-> DigitsToNat(s)]
    ELSE [ok |-> FALSE, val |-> 0]

\* str(n) for a natural number, as a character sequence
RECURSIVE NatToDigits(_)
NatToDigits(n) ==
    IF n < 10 THEN <<DigitChars[n + 1]>>
    ELSE NatToDigits(n \div 10) \o <<DigitChars[(n % 10) + 1]>>

\* ------------------------------------------------------------------------
\* Texts
\* ------------------------------------------------------------------------
\* A text the code builds from string literals and formatted numbers (an
\* f-string) is the sequence of its pieces; Render gives its characters.

L(s) == [lit |-> s]
N(n) == [num |-> n]

\* A Python number keeps its type: 30 and 30.0 compare equal and print
\* differently.
IntNum(n) == [n |-> n, float |-> FALSE]
FloatNum(n) == [n |-> n, float |-> TRUE]

\* A JSON string where a number is expected. Ordering it against a float
\* raises TypeError, so its n is never compared.
TextValue == [n |-> 0, float |-> FALSE, text |-> TRUE]
IsNumber(v) == "text" \notin DOMAIN v

\* f"{x}" for a number x
V(x) == [val |-> x]

\* A float with a fixed number of decimals, as round(x, scale) returns it:
\* units / 10^scale. Dec(242, 2) is 2.42.
Dec(units, scale) == [units |-> units, scale |-> scale]

\* f"{x}" for such a float
R(x) == [dec |-> x]

\* ---- literal table (begin) ----
LiteralChars(s) ==
    CASE s = "Generated using fallback mode (Azure OpenAI not configured). Configure AZURE_OPENAI_ENDPOINT and AZURE_OPENAI_API_KEY for full functionality." ->
        <<"G", "e", "n", "e", "r", "a", "t", "e", "d", " ", "u", "s", "i",
        "n", "g", " ", "f", "a", "l", "l", "b", "a", "c", "k", " ", "m",
        "o", "d", "e", " ", "(", "A", "z", "u", "r", "e", " ", "O", "p",
        "e", "n", "A", "I", " ", "n", "o", "t", " ", "c", "o", "n", "f",
        "i", "g", "u", "r", "e", "d", ")", ".", " ", "C", "o", "n", "f",
        "i", "g", "u", "r", "e", " ", "A", "Z", "U", "R", "E", "_", "O",
        "P", "E", "N", "A", "I", "_", "E", "N", "D", "P", "O", "I", "N",
        "T", " ", "a", "n", "d", " ", "A", "Z", "U", "R", "E", "_", "O",
        "P", "E", "N", "A", "I", "_", "A", "P", "I", "_", "K", "E", "Y",
        " ", "f", "o", "r", " ", "f", "u", "l", "l", " ", "f", "u", "n",
        "c", "t", "i", "o", "n", "a", "l", "i", "t", "y", ".">>
      [] s = "Empty response from LLM" ->
        <<"E", "m", "p", "t", "y", " ", "r", "e", "s", "p", "o", "n", "s",
        "e", " ", "f", "r", "o", "m", " ", "L", "L", "M">>
      [] s = "Fallback due to empty response" ->
        <<"F", "a", "l", "l", "b", "a", "c", "k", " ", "d", "u", "e", " ",
        "t", "o", " ", "e", "m", "p", "t", "y", " ", "r", "e", "s", "p",
        "o", "n", "s", "e">>
      [] s = "Failed to parse LLM response as JSON" ->
        <<"F", "a", "i", "l", "e", "d", " ", "t", "o", " ", "p", "a", "r",
        "s", "e", " ", "L", "L", "M", " ", "r", "e", "s", "p", "o", "n",
        "s", "e", " ", "a", "s", " ", "J", "S", "O", "N">>
      [] s = "LLM call failed: " ->
        <<"L", "L", "M", " ", "c", "a", "l", "l", " ", "f", "a", "i", "l",
        "e", "d", ":", " ">>
      [] s = "always" ->
        <<"a", "l", "w", "a", "y", "s">>
      [] s = "never" ->
        <<"n", "e", "v", "e", "r">>
      [] s = "all people in" ->
        <<"a", "l", "l", " ", "p", "e", "o", "p", "l", "e", " ", "i", "n">>
      [] s = "everyone in" ->
        <<"e", "v", "e", "r", "y", "o", "n", "e", " ", "i", "n">>
      [] s = "they always" ->
        <<"t", "h", "e", "y", " ", "a", "l", "w", "a", "y", "s">>
      [] s = "they never" ->
        <<"t", "h", "e", "y", " ", "n", "e", "v", "e", "r">>
      [] s = "people in" ->
        <<"p", "e", "o", "p", "l", "e", " ", "i", "n">>
      [] s = "typical of" ->
        <<"t", "y", "p", "i", "c", "a", "l", " ", "o", "f">>
      [] s = "uncertainty" ->
        <<"u", "n", "c", "e", "r", "t", "a", "i", "n", "t", "y">>
      [] s = "collectivism" ->
        <<"c", "o", "l", "l", "e", "c", "t", "i", "v", "i", "s", "m">>
      [] s = "authority" ->
        <<"a", "u", "t", "h", "o", "r", "i", "t", "y">>
      [] s = "context" ->
        <<"c", "o", "n", "t", "e", "x", "t">>
      [] s = "price" ->
        <<"p", "r", "i", "c", "e">>
      [] s = "trust" ->
        <<"t", "r", "u", "s", "t">>
      [] s = "friction" ->
        <<"f", "r", "i", "c", "t", "i", "o", "n">>
      [] s = "ua=" ->
        <<"u", "a", "=">>
      [] s = "cl=" ->
        <<"c", "l", "=">>
      [] s = "Potentially essentializing language detected in " ->
        <<"P", "o", "t", "e", "n", "t", "i", "a", "l", "l", "y", " ", "e",
        "s", "s", "e", "n", "t", "i", "a", "l", "i", "z", "i", "n", "g",
        " ", "l", "a", "n", "g", "u", "a", "g", "e", " ", "d", "e", "t",
        "e", "c", "t", "e", "d", " ", "i", "n", " ">>
      [] s = ": contains '" ->
        <<":", " ", "c", "o", "n", "t", "a", "i", "n", "s", " ", "'">>
      [] s = "'" ->
        <<"'">>
      [] s = "Rephrase to avoid generalizing statements. Use dimension-specific language instead." ->
        <<"R", "e", "p", "h", "r", "a", "s", "e", " ", "t", "o", " ", "a",
        "v", "o", "i", "d", " ", "g", "e", "n", "e", "r", "a", "l", "i",
        "z", "i", "n", "g", " ", "s", "t", "a", "t", "e", "m", "e", "n",
        "t", "s", ".", " ", "U", "s", "e", " ", "d", "i", "m", "e", "n",
        "s", "i", "o", "n", "-", "s", "p", "e", "c", "i", "f", "i", "c",
        " ", "l", "a", "n", "g", "u", "a", "g", "e", " ", "i", "n", "s",
        "t", "e", "a", "d", ".">>
      [] s = "copy." ->
        <<"c", "o", "p", "y", ".">>
      [] s = "Module '" ->
        <<"M", "o", "d", "u", "l", "e", " ", "'">>
      [] s = "' rationale may not reference specific behavioral dimensions" ->
        <<"'", " ", "r", "a", "t", "i", "o", "n", "a", "l", "e", " ", "m",
        "a", "y", " ", "n", "o", "t", " ", "r", "e", "f", "e", "r", "e",
        "n", "c", "e", " ", "s", "p", "e", "c", "i", "f", "i", "c", " ",
        "b", "e", "h", "a", "v", "i", "o", "r", "a", "l", " ", "d", "i",
        "m", "e", "n", "s", "i", "o", "n", "s">>
      [] s = "Ensure rationale explicitly references dimension scores and mapping rules." ->
        <<"E", "n", "s", "u", "r", "e", " ", "r", "a", "t", "i", "o", "n",
        "a", "l", "e", " ", "e", "x", "p", "l", "i", "c", "i", "t", "l",
        "y", " ", "r", "e", "f", "e", "r", "e", "n", "c", "e", "s", " ",
        "d", "i", "m", "e", "n", "s", "i", "o", "n", " ", "s", "c", "o",
        "r", "e", "s", " ", "a", "n", "d", " ", "m", "a", "p", "p", "i",
        "n", "g", " ", "r", "u", "l", "e", "s", ".">>
      [] s = "modules." ->
        <<"m", "o", "d", "u", "l", "e", "s", ".">>
      [] s = "Flow step '" ->
        <<"F", "l", "o", "w", " ", "s", "t", "e", "p", " ", "'">>
      [] s = "' adaptation lacks dimension driver" ->
        <<"'", " ", "a", "d", "a", "p", "t", "a", "t", "i", "o", "n", " ",
        "l", "a", "c", "k", "s", " ", "d", "i", "m", "e", "n", "s", "i",
        "o", "n", " ", "d", "r", "i", "v", "e", "r">>
      [] s = "Add specific dimension and score that drives this adaptation." ->
        <<"A", "d", "d", " ", "s", "p", "e", "c", "i", "f", "i", "c", " ",
        "d", "i", "m", "e", "n", "s", "i", "o", "n", " ", "a", "n", "d",
        " ", "s", "c", "o", "r", "e", " ", "t", "h", "a", "t", " ", "d",
        "r", "i", "v", "e", "s", " ", "t", "h", "i", "s", " ", "a", "d",
        "a", "p", "t", "a", "t", "i", "o", "n", ".">>
      [] s = "flow." ->
        <<"f", "l", "o", "w", ".">>
      [] s = "FLAG_" ->
        <<"F", "L", "A", "G", "_">>
      [] s = "Rule-based audit complete. Score: " ->
        <<"R", "u", "l", "e", "-", "b", "a", "s", "e", "d", " ", "a", "u",
        "d", "i", "t", " ", "c", "o", "m", "p", "l", "e", "t", "e", ".",
        " ", "S", "c", "o", "r", "e", ":", " ">>
      [] s = "/100 with " ->
        <<"/", "1", "0", "0", " ", "w", "i", "t", "h", " ">>
      [] s = " flags identified." ->
        <<" ", "f", "l", "a", "g", "s", " ", "i", "d", "e", "n", "t", "i",
        "f", "i", "e", "d", ".">>
      [] s = "Audit performed using rule-based checks (LLM not available). Checks include: essentializing language detection, dimension justification verification, and flow adaptation coverage." ->
        <<"A", "u", "d", "i", "t", " ", "p", "e", "r", "f", "o", "r", "m",
        "e", "d", " ", "u", "s", "i", "n", "g", " ", "r", "u", "l", "e",
        "-", "b", "a", "s", "e", "d", " ", "c", "h", "e", "c", "k", "s",
        " ", "(", "L", "L", "M", " ", "n", "o", "t", " ", "a", "v", "a",
        "i", "l", "a", "b", "l", "e", ")", ".", " ", "C", "h", "e", "c",
        "k", "s", " ", "i", "n", "c", "l", "u", "d", "e", ":", " ", "e",
        "s", "s", "e", "n", "t", "i", "a", "l", "i", "z", "i", "n", "g",
        " ", "l", "a", "n", "g", "u", "a", "g", "e", " ", "d", "e", "t",
        "e", "c", "t", "i", "o", "n", ",", " ", "d", "i", "m", "e", "n",
        "s", "i", "o", "n", " ", "j", "u", "s", "t", "i", "f", "i", "c",
        "a", "t", "i", "o", "n", " ", "v", "e", "r", "i", "f", "i", "c",
        "a", "t", "i", "o", "n", ",", " ", "a", "n", "d", " ", "f", "l",
        "o", "w", " ", "a", "d", "a", "p", "t", "a", "t", "i", "o", "n",
        " ", "c", "o", "v", "e", "r", "a", "g", "e", ".">>
      [] s = "Priors are population-level approximations, not descriptions of individuals." ->
        <<"P", "r", "i", "o", "r", "s", " ", "a", "r", "e", " ", "p", "o",
        "p", "u", "l", "a", "t", "i", "o", "n", "-", "l", "e", "v", "e",
        "l", " ", "a", "p", "p", "r", "o", "x", "i", "m", "a", "t", "i",
        "o", "n", "s", ",", " ", "n", "o", "t", " ", "d", "e", "s", "c",
        "r", "i", "p", "t", "i", "o", "n", "s", " ", "o", "f", " ", "i",
        "n", "d", "i", "v", "i", "d", "u", "a", "l", "s", ".">>
      [] s = "Add to Cart" ->
        <<"A", "d", "d", " ", "t", "o", " ", "C", "a", "r", "t">>
      [] s = "Save for Later" ->
        <<"S", "a", "v", "e", " ", "f", "o", "r", " ", "L", "a", "t", "e",
        "r">>
      [] s = "Quality products at great prices" ->
        <<"Q", "u", "a", "l", "i", "t", "y", " ", "p", "r", "o", "d", "u",
        "c", "t", "s", " ", "a", "t", " ", "g", "r", "e", "a", "t", " ",
        "p", "r", "i", "c", "e", "s">>
      [] s = "Limited stock available" ->
        <<"L", "i", "m", "i", "t", "e", "d", " ", "s", "t", "o", "c", "k",
        " ", "a", "v", "a", "i", "l", "a", "b", "l", "e">>
      [] s = "Rated 4.5/5 by customers" ->
        <<"R", "a", "t", "e", "d", " ", "4", ".", "5", "/", "5", " ", "b",
        "y", " ", "c", "u", "s", "t", "o", "m", "e", "r", "s">>
      [] s = " [Manual overrides applied to some dimensions]" ->
        <<" ", "[", "M", "a", "n", "u", "a", "l", " ", "o", "v", "e", "r",
        "r", "i", "d", "e", "s", " ", "a", "p", "p", "l", "i", "e", "d",
        " ", "t", "o", " ", "s", "o", "m", "e", " ", "d", "i", "m", "e",
        "n", "s", "i", "o", "n", "s", "]">>
      [] s = "No cultural priors available for " ->
        <<"N", "o", " ", "c", "u", "l", "t", "u", "r", "a", "l", " ", "p",
        "r", "i", "o", "r", "s", " ", "a", "v", "a", "i", "l", "a", "b",
        "l", "e", " ", "f", "o", "r", " ">>
      [] s = ". Using default neutral values." ->
        <<".", " ", "U", "s", "i", "n", "g", " ", "d", "e", "f", "a", "u",
        "l", "t", " ", "n", "e", "u", "t", "r", "a", "l", " ", "v", "a",
        "l", "u", "e", "s", ".">>
      [] s = "Default neutral profile applied due to missing cultural data." ->
        <<"D", "e", "f", "a", "u", "l", "t", " ", "n", "e", "u", "t", "r",
        "a", "l", " ", "p", "r", "o", "f", "i", "l", "e", " ", "a", "p",
        "p", "l", "i", "e", "d", " ", "d", "u", "e", " ", "t", "o", " ",
        "m", "i", "s", "s", "i", "n", "g", " ", "c", "u", "l", "t", "u",
        "r", "a", "l", " ", "d", "a", "t", "a", ".">>
      [] s = "" ->
        <<>>
      [] s = "Base cultural priors for " ->
        <<"B", "a", "s", "e", " ", "c", "u", "l", "t", "u", "r", "a", "l",
        " ", "p", "r", "i", "o", "r", "s", " ", "f", "o", "r", " ">>
      [] s = " in " ->
        <<" ", "i", "n", " ">>
      [] s = " context. LLM enrichment not available." ->
        <<" ", "c", "o", "n", "t", "e", "x", "t", ".", " ", "L", "L", "M",
        " ", "e", "n", "r", "i", "c", "h", "m", "e", "n", "t", " ", "n",
        "o", "t", " ", "a", "v", "a", "i", "l", "a", "b", "l", "e", ".">>
      [] s = "Low friction tolerance requires streamlined flow to prevent cart abandonment" ->
        <<"L", "o", "w", " ", "f", "r", "i", "c", "t", "i", "o", "n", " ",
        "t", "o", "l", "e", "r", "a", "n", "c", "e", " ", "r", "e", "q",
        "u", "i", "r", "e", "s", " ", "s", "t", "r", "e", "a", "m", "l",
        "i", "n", "e", "d", " ", "f", "l", "o", "w", " ", "t", "o", " ",
        "p", "r", "e", "v", "e", "n", "t", " ", "c", "a", "r", "t", " ",
        "a", "b", "a", "n", "d", "o", "n", "m", "e", "n", "t">>
      [] s = "friction_tolerance=" ->
        <<"f", "r", "i", "c", "t", "i", "o", "n", "_", "t", "o", "l", "e",
        "r", "a", "n", "c", "e", "=">>
      [] s = ", " ->
        <<",", " ">>
      [] s = "Collectivism=" ->
        <<"C", "o", "l", "l", "e", "c", "t", "i", "v", "i", "s", "m", "=">>
      [] s = ": " ->
        <<":", " ">>
      [] s = "Strong social proof emphasis" ->
        <<"S", "t", "r", "o", "n", "g", " ", "s", "o", "c", "i", "a", "l",
        " ", "p", "r", "o", "o", "f", " ", "e", "m", "p", "h", "a", "s",
        "i", "s">>
      [] s = "Standard review display" ->
        <<"S", "t", "a", "n", "d", "a", "r", "d", " ", "r", "e", "v", "i",
        "e", "w", " ", "d", "i", "s", "p", "l", "a", "y">>
      [] s = "Trust need=" ->
        <<"T", "r", "u", "s", "t", " ", "n", "e", "e", "d", "=">>
      [] s = "Enhanced guarantee prominence" ->
        <<"E", "n", "h", "a", "n", "c", "e", "d", " ", "g", "u", "a", "r",
        "a", "n", "t", "e", "e", " ", "p", "r", "o", "m", "i", "n", "e",
        "n", "c", "e">>
      [] s = "Standard guarantees" ->
        <<"S", "t", "a", "n", "d", "a", "r", "d", " ", "g", "u", "a", "r",
        "a", "n", "t", "e", "e", "s">>
      [] s = "UA=" ->
        <<"U", "A", "=">>
      [] s = ", CL=" ->
        <<",", " ", "C", "L", "=">>
      [] s = "Detailed upfront shipping info" ->
        <<"D", "e", "t", "a", "i", "l", "e", "d", " ", "u", "p", "f", "r",
        "o", "n", "t", " ", "s", "h", "i", "p", "p", "i", "n", "g", " ",
        "i", "n", "f", "o">>
      [] s = "Standard shipping display" ->
        <<"S", "t", "a", "n", "d", "a", "r", "d", " ", "s", "h", "i", "p",
        "p", "i", "n", "g", " ", "d", "i", "s", "p", "l", "a", "y">>
      [] s = "High prominence returns policy" ->
        <<"H", "i", "g", "h", " ", "p", "r", "o", "m", "i", "n", "e", "n",
        "c", "e", " ", "r", "e", "t", "u", "r", "n", "s", " ", "p", "o",
        "l", "i", "c", "y">>
      [] s = "Standard returns" ->
        <<"S", "t", "a", "n", "d", "a", "r", "d", " ", "r", "e", "t", "u",
        "r", "n", "s">>
      [] s = "Price sensitivity=" ->
        <<"P", "r", "i", "c", "e", " ", "s", "e", "n", "s", "i", "t", "i",
        "v", "i", "t", "y", "=">>
      [] s = "Installment and flexible payment emphasis" ->
        <<"I", "n", "s", "t", "a", "l", "l", "m", "e", "n", "t", " ", "a",
        "n", "d", " ", "f", "l", "e", "x", "i", "b", "l", "e", " ", "p",
        "a", "y", "m", "e", "n", "t", " ", "e", "m", "p", "h", "a", "s",
        "i", "s">>
      [] s = "Standard payment options" ->
        <<"S", "t", "a", "n", "d", "a", "r", "d", " ", "p", "a", "y", "m",
        "e", "n", "t", " ", "o", "p", "t", "i", "o", "n", "s">>
      [] s = "Community-driven social proof" ->
        <<"C", "o", "m", "m", "u", "n", "i", "t", "y", "-", "d", "r", "i",
        "v", "e", "n", " ", "s", "o", "c", "i", "a", "l", " ", "p", "r",
        "o", "o", "f">>
      [] s = "Individual testimonials" ->
        <<"I", "n", "d", "i", "v", "i", "d", "u", "a", "l", " ", "t", "e",
        "s", "t", "i", "m", "o", "n", "i", "a", "l", "s">>
      [] s = "trust-first" ->
        <<"t", "r", "u", "s", "t", "-", "f", "i", "r", "s", "t">>
      [] s = "efficiency-driven" ->
        <<"e", "f", "f", "i", "c", "i", "e", "n", "c", "y", "-", "d", "r",
        "i", "v", "e", "n">>
      [] s = "community-validated" ->
        <<"c", "o", "m", "m", "u", "n", "i", "t", "y", "-", "v", "a", "l",
        "i", "d", "a", "t", "e", "d">>
      [] s = "information-rich" ->
        <<"i", "n", "f", "o", "r", "m", "a", "t", "i", "o", "n", "-", "r",
        "i", "c", "h">>
      [] s = "value-oriented" ->
        <<"v", "a", "l", "u", "e", "-", "o", "r", "i", "e", "n", "t", "e",
        "d">>
      [] s = "balanced" ->
        <<"b", "a", "l", "a", "n", "c", "e", "d">>
      [] s = "Adaptation driven by " ->
        <<"A", "d", "a", "p", "t", "a", "t", "i", "o", "n", " ", "d", "r",
        "i", "v", "e", "n", " ", "b", "y", " ">>
      [] s = " applicable mapping rules for " ->
        <<" ", "a", "p", "p", "l", "i", "c", "a", "b", "l", "e", " ", "m",
        "a", "p", "p", "i", "n", "g", " ", "r", "u", "l", "e", "s", " ",
        "f", "o", "r", " ">>
      [] s = " identified behavioral patterns. Generated using rule-based fallback." ->
        <<" ", "i", "d", "e", "n", "t", "i", "f", "i", "e", "d", " ", "b",
        "e", "h", "a", "v", "i", "o", "r", "a", "l", " ", "p", "a", "t",
        "t", "e", "r", "n", "s", ".", " ", "G", "e", "n", "e", "r", "a",
        "t", "e", "d", " ", "u", "s", "i", "n", "g", " ", "r", "u", "l",
        "e", "-", "b", "a", "s", "e", "d", " ", "f", "a", "l", "l", "b",
        "a", "c", "k", ".">>
      [] s = "None" ->
        <<"N", "o", "n", "e">>
      [] s = "Join thousands who chose this ### Add to Cart" ->
        <<"J", "o", "i", "n", " ", "t", "h", "o", "u", "s", "a", "n", "d",
        "s", " ", "w", "h", "o", " ", "c", "h", "o", "s", "e", " ", "t",
        "h", "i", "s", " ", "#", "#", "#", " ", "A", "d", "d", " ", "t",
        "o", " ", "C", "a", "r", "t">>
      [] s = ": Group validation framing emphasizes community consensus." ->
        <<":", " ", "G", "r", "o", "u", "p", " ", "v", "a", "l", "i", "d",
        "a", "t", "i", "o", "n", " ", "f", "r", "a", "m", "i", "n", "g",
        " ", "e", "m", "p", "h", "a", "s", "i", "z", "e", "s", " ", "c",
        "o", "m", "m", "u", "n", "i", "t", "y", " ", "c", "o", "n", "s",
        "e", "n", "s", "u", "s", ".">>
      [] s = "Add to Cart ### Free shipping, 30-day returns" ->
        <<"A", "d", "d", " ", "t", "o", " ", "C", "a", "r", "t", " ", "#",
        "#", "#", " ", "F", "r", "e", "e", " ", "s", "h", "i", "p", "p",
        "i", "n", "g", ",", " ", "3", "0", "-", "d", "a", "y", " ", "r",
        "e", "t", "u", "r", "n", "s">>
      [] s = "Context level=" ->
        <<"C", "o", "n", "t", "e", "x", "t", " ", "l", "e", "v", "e", "l",
        "=">>
      [] s = ": Low-context preference requires explicit benefit information in CTA." ->
        <<":", " ", "L", "o", "w", "-", "c", "o", "n", "t", "e", "x", "t",
        " ", "p", "r", "e", "f", "e", "r", "e", "n", "c", "e", " ", "r",
        "e", "q", "u", "i", "r", "e", "s", " ", "e", "x", "p", "l", "i",
        "c", "i", "t", " ", "b", "e", "n", "e", "f", "i", "t", " ", "i",
        "n", "f", "o", "r", "m", "a", "t", "i", "o", "n", " ", "i", "n",
        " ", "C", "T", "A", ".">>
      [] s = "Baseline CTA maintained ### no strong dimension-driven change indicated." ->
        <<"B", "a", "s", "e", "l", "i", "n", "e", " ", "C", "T", "A", " ",
        "m", "a", "i", "n", "t", "a", "i", "n", "e", "d", " ", "#", "#",
        "#", " ", "n", "o", " ", "s", "t", "r", "o", "n", "g", " ", "d",
        "i", "m", "e", "n", "s", "i", "o", "n", "-", "d", "r", "i", "v",
        "e", "n", " ", "c", "h", "a", "n", "g", "e", " ", "i", "n", "d",
        "i", "c", "a", "t", "e", "d", ".">>
      [] s = "Share with friends" ->
        <<"S", "h", "a", "r", "e", " ", "w", "i", "t", "h", " ", "f", "r",
        "i", "e", "n", "d", "s">>
      [] s = ": Social sharing supports group-oriented decision making." ->
        <<":", " ", "S", "o", "c", "i", "a", "l", " ", "s", "h", "a", "r",
        "i", "n", "g", " ", "s", "u", "p", "p", "o", "r", "t", "s", " ",
        "g", "r", "o", "u", "p", "-", "o", "r", "i", "e", "n", "t", "e",
        "d", " ", "d", "e", "c", "i", "s", "i", "o", "n", " ", "m", "a",
        "k", "i", "n", "g", ".">>
      [] s = "Save to your wishlist" ->
        <<"S", "a", "v", "e", " ", "t", "o", " ", "y", "o", "u", "r", " ",
        "w", "i", "s", "h", "l", "i", "s", "t">>
      [] s = ": Individual-oriented save action." ->
        <<":", " ", "I", "n", "d", "i", "v", "i", "d", "u", "a", "l", "-",
        "o", "r", "i", "e", "n", "t", "e", "d", " ", "s", "a", "v", "e",
        " ", "a", "c", "t", "i", "o", "n", ".">>
      [] s = "Trusted by experts. Backed by our guarantee. Quality you can count on." ->
        <<"T", "r", "u", "s", "t", "e", "d", " ", "b", "y", " ", "e", "x",
        "p", "e", "r", "t", "s", ".", " ", "B", "a", "c", "k", "e", "d",
        " ", "b", "y", " ", "o", "u", "r", " ", "g", "u", "a", "r", "a",
        "n", "t", "e", "e", ".", " ", "Q", "u", "a", "l", "i", "t", "y",
        " ", "y", "o", "u", " ", "c", "a", "n", " ", "c", "o", "u", "n",
        "t", " ", "o", "n", ".">>
      [] s = ", UA=" ->
        <<",", " ", "U", "A", "=">>
      [] s = ": Trust and reliability framing for risk-averse audience." ->
        <<":", " ", "T", "r", "u", "s", "t", " ", "a", "n", "d", " ", "r",
        "e", "l", "i", "a", "b", "i", "l", "i", "t", "y", " ", "f", "r",
        "a", "m", "i", "n", "g", " ", "f", "o", "r", " ", "r", "i", "s",
        "k", "-", "a", "v", "e", "r", "s", "e", " ", "a", "u", "d", "i",
        "e", "n", "c", "e", ".">>
      [] s = "Exceptional value ### premium quality at the best price. Compare and save." ->
        <<"E", "x", "c", "e", "p", "t", "i", "o", "n", "a", "l", " ", "v",
        "a", "l", "u", "e", " ", "#", "#", "#", " ", "p", "r", "e", "m",
        "i", "u", "m", " ", "q", "u", "a", "l", "i", "t", "y", " ", "a",
        "t", " ", "t", "h", "e", " ", "b", "e", "s", "t", " ", "p", "r",
        "i", "c", "e", ".", " ", "C", "o", "m", "p", "a", "r", "e", " ",
        "a", "n", "d", " ", "s", "a", "v", "e", ".">>
      [] s = ": Value-first framing with comparison invitation." ->
        <<":", " ", "V", "a", "l", "u", "e", "-", "f", "i", "r", "s", "t",
        " ", "f", "r", "a", "m", "i", "n", "g", " ", "w", "i", "t", "h",
        " ", "c", "o", "m", "p", "a", "r", "i", "s", "o", "n", " ", "i",
        "n", "v", "i", "t", "a", "t", "i", "o", "n", ".">>
      [] s = "Quality products for you" ->
        <<"Q", "u", "a", "l", "i", "t", "y", " ", "p", "r", "o", "d", "u",
        "c", "t", "s", " ", "f", "o", "r", " ", "y", "o", "u">>
      [] s = "Baseline value proposition ### balanced approach." ->
        <<"B", "a", "s", "e", "l", "i", "n", "e", " ", "v", "a", "l", "u",
        "e", " ", "p", "r", "o", "p", "o", "s", "i", "t", "i", "o", "n",
        " ", "#", "#", "#", " ", "b", "a", "l", "a", "n", "c", "e", "d",
        " ", "a", "p", "p", "r", "o", "a", "c", "h", ".">>
      [] s = "Popular choice ### 500+ customers bought this today" ->
        <<"P", "o", "p", "u", "l", "a", "r", " ", "c", "h", "o", "i", "c",
        "e", " ", "#", "#", "#", " ", "5", "0", "0", "+", " ", "c", "u",
        "s", "t", "o", "m", "e", "r", "s", " ", "b", "o", "u", "g", "h",
        "t", " ", "t", "h", "i", "s", " ", "t", "o", "d", "a", "y">>
      [] s = ": Social proof urgency leverages group behavior." ->
        <<":", " ", "S", "o", "c", "i", "a", "l", " ", "p", "r", "o", "o",
        "f", " ", "u", "r", "g", "e", "n", "c", "y", " ", "l", "e", "v",
        "e", "r", "a", "g", "e", "s", " ", "g", "r", "o", "u", "p", " ",
        "b", "e", "h", "a", "v", "i", "o", "r", ".">>
      [] s = "Secure your order now ### our guarantee covers every purchase" ->
        <<"S", "e", "c", "u", "r", "e", " ", "y", "o", "u", "r", " ", "o",
        "r", "d", "e", "r", " ", "n", "o", "w", " ", "#", "#", "#", " ",
        "o", "u", "r", " ", "g", "u", "a", "r", "a", "n", "t", "e", "e",
        " ", "c", "o", "v", "e", "r", "s", " ", "e", "v", "e", "r", "y",
        " ", "p", "u", "r", "c", "h", "a", "s", "e">>
      [] s = ": Reassurance-based urgency reduces perceived risk." ->
        <<":", " ", "R", "e", "a", "s", "s", "u", "r", "a", "n", "c", "e",
        "-", "b", "a", "s", "e", "d", " ", "u", "r", "g", "e", "n", "c",
        "y", " ", "r", "e", "d", "u", "c", "e", "s", " ", "p", "e", "r",
        "c", "e", "i", "v", "e", "d", " ", "r", "i", "s", "k", ".">>
      [] s = "Limited availability" ->
        <<"L", "i", "m", "i", "t", "e", "d", " ", "a", "v", "a", "i", "l",
        "a", "b", "i", "l", "i", "t", "y">>
      [] s = "Standard scarcity-based urgency." ->
        <<"S", "t", "a", "n", "d", "a", "r", "d", " ", "s", "c", "a", "r",
        "c", "i", "t", "y", "-", "b", "a", "s", "e", "d", " ", "u", "r",
        "g", "e", "n", "c", "y", ".">>
      [] s = "Rated 4.8/5 by our community of 25,000+ verified buyers" ->
        <<"R", "a", "t", "e", "d", " ", "4", ".", "8", "/", "5", " ", "b",
        "y", " ", "o", "u", "r", " ", "c", "o", "m", "m", "u", "n", "i",
        "t", "y", " ", "o", "f", " ", "2", "5", ",", "0", "0", "0", "+",
        " ", "v", "e", "r", "i", "f", "i", "e", "d", " ", "b", "u", "y",
        "e", "r", "s">>
      [] s = ": Community-scale social proof with verification emphasis." ->
        <<":", " ", "C", "o", "m", "m", "u", "n", "i", "t", "y", "-", "s",
        "c", "a", "l", "e", " ", "s", "o", "c", "i", "a", "l", " ", "p",
        "r", "o", "o", "f", " ", "w", "i", "t", "h", " ", "v", "e", "r",
        "i", "f", "i", "c", "a", "t", "i", "o", "n", " ", "e", "m", "p",
        "h", "a", "s", "i", "s", ".">>
      [] s = "Independently reviewed and rated 4.8/5 stars" ->
        <<"I", "n", "d", "e", "p", "e", "n", "d", "e", "n", "t", "l", "y",
        " ", "r", "e", "v", "i", "e", "w", "e", "d", " ", "a", "n", "d",
        " ", "r", "a", "t", "e", "d", " ", "4", ".", "8", "/", "5", " ",
        "s", "t", "a", "r", "s">>
      [] s = ": Individual-oriented review framing with independence emphasis." ->
        <<":", " ", "I", "n", "d", "i", "v", "i", "d", "u", "a", "l", "-",
        "o", "r", "i", "e", "n", "t", "e", "d", " ", "r", "e", "v", "i",
        "e", "w", " ", "f", "r", "a", "m", "i", "n", "g", " ", "w", "i",
        "t", "h", " ", "i", "n", "d", "e", "p", "e", "n", "d", "e", "n",
        "c", "e", " ", "e", "m", "p", "h", "a", "s", "i", "s", ".">>
      [] s = "#### Secure checkout ### your information is protected" ->
        <<"#", "#", "#", "#", " ", "S", "e", "c", "u", "r", "e", " ", "c",
        "h", "e", "c", "k", "o", "u", "t", " ", "#", "#", "#", " ", "y",
        "o", "u", "r", " ", "i", "n", "f", "o", "r", "m", "a", "t", "i",
        "o", "n", " ", "i", "s", " ", "p", "r", "o", "t", "e", "c", "t",
        "e", "d">>
      [] s = ": Security reassurance at point of commitment." ->
        <<":", " ", "S", "e", "c", "u", "r", "i", "t", "y", " ", "r", "e",
        "a", "s", "s", "u", "r", "a", "n", "c", "e", " ", "a", "t", " ",
        "p", "o", "i", "n", "t", " ", "o", "f", " ", "c", "o", "m", "m",
        "i", "t", "m", "e", "n", "t", ".">>
      [] s = "### 100% money-back guarantee ### ### Verified seller ### ### Secure payment" ->
        <<"#", "#", "#", " ", "1", "0", "0", "%", " ", "m", "o", "n", "e",
        "y", "-", "b", "a", "c", "k", " ", "g", "u", "a", "r", "a", "n",
        "t", "e", "e", " ", "#", "#", "#", " ", "#", "#", "#", " ", "V",
        "e", "r", "i", "f", "i", "e", "d", " ", "s", "e", "l", "l", "e",
        "r", " ", "#", "#", "#", " ", "#", "#", "#", " ", "S", "e", "c",
        "u", "r", "e", " ", "p", "a", "y", "m", "e", "n", "t">>
      [] s = ": Multiple trust signals reduce uncertainty at decision point." ->
        <<":", " ", "M", "u", "l", "t", "i", "p", "l", "e", " ", "t", "r",
        "u", "s", "t", " ", "s", "i", "g", "n", "a", "l", "s", " ", "r",
        "e", "d", "u", "c", "e", " ", "u", "n", "c", "e", "r", "t", "a",
        "i", "n", "t", "y", " ", "a", "t", " ", "d", "e", "c", "i", "s",
        "i", "o", "n", " ", "p", "o", "i", "n", "t", ".">>
      [] s = "#### Best price guarantee ### we'll match any lower price" ->
        <<"#", "#", "#", "#", " ", "B", "e", "s", "t", " ", "p", "r", "i",
        "c", "e", " ", "g", "u", "a", "r", "a", "n", "t", "e", "e", " ",
        "#", "#", "#", " ", "w", "e", "'", "l", "l", " ", "m", "a", "t",
        "c", "h", " ", "a", "n", "y", " ", "l", "o", "w", "e", "r", " ",
        "p", "r", "i", "c", "e">>
      [] s = ": Price-match messaging reduces price anxiety." ->
        <<":", " ", "P", "r", "i", "c", "e", "-", "m", "a", "t", "c", "h",
        " ", "m", "e", "s", "s", "a", "g", "i", "n", "g", " ", "r", "e",
        "d", "u", "c", "e", "s", " ", "p", "r", "i", "c", "e", " ", "a",
        "n", "x", "i", "e", "t", "y", ".">>
      [] s = "Free standard shipping ### Easy returns" ->
        <<"F", "r", "e", "e", " ", "s", "t", "a", "n", "d", "a", "r", "d",
        " ", "s", "h", "i", "p", "p", "i", "n", "g", " ", "#", "#", "#",
        " ", "E", "a", "s", "y", " ", "r", "e", "t", "u", "r", "n", "s">>
      [] s = "Free shipping (3-5 business days) ### 30-day free returns ### Full refund policy" ->
        <<"F", "r", "e", "e", " ", "s", "h", "i", "p", "p", "i", "n", "g",
        " ", "(", "3", "-", "5", " ", "b", "u", "s", "i", "n", "e", "s",
        "s", " ", "d", "a", "y", "s", ")", " ", "#", "#", "#", " ", "3",
        "0", "-", "d", "a", "y", " ", "f", "r", "e", "e", " ", "r", "e",
        "t", "u", "r", "n", "s", " ", "#", "#", "#", " ", "F", "u", "l",
        "l", " ", "r", "e", "f", "u", "n", "d", " ", "p", "o", "l", "i",
        "c", "y">>
      [] s = "Detailed shipping terms for low-context preference" ->
        <<"D", "e", "t", "a", "i", "l", "e", "d", " ", "s", "h", "i", "p",
        "p", "i", "n", "g", " ", "t", "e", "r", "m", "s", " ", "f", "o",
        "r", " ", "l", "o", "w", "-", "c", "o", "n", "t", "e", "x", "t",
        " ", "p", "r", "e", "f", "e", "r", "e", "n", "c", "e">>
      [] s = "Concise shipping summary" ->
        <<"C", "o", "n", "c", "i", "s", "e", " ", "s", "h", "i", "p", "p",
        "i", "n", "g", " ", "s", "u", "m", "m", "a", "r", "y">>
      [] s = "." ->
        <<".">>
      [] s = "+" ->
        <<"+">>
      [] s = "%" ->
        <<"%">>
      [] s = "Social proof emphasis" ->
        <<"S", "o", "c", "i", "a", "l", " ", "p", "r", "o", "o", "f", " ",
        "e", "m", "p", "h", "a", "s", "i", "s">>
      [] s = "Enhanced guarantees" ->
        <<"E", "n", "h", "a", "n", "c", "e", "d", " ", "g", "u", "a", "r",
        "a", "n", "t", "e", "e", "s">>
      [] s = "Trust modules above fold" ->
        <<"T", "r", "u", "s", "t", " ", "m", "o", "d", "u", "l", "e", "s",
        " ", "a", "b", "o", "v", "e", " ", "f", "o", "l", "d">>
      [] s = "Value/installment framing" ->
        <<"V", "a", "l", "u", "e", "/", "i", "n", "s", "t", "a", "l", "l",
        "m", "e", "n", "t", " ", "f", "r", "a", "m", "i", "n", "g">>
      [] s = "Social proof module" ->
        <<"S", "o", "c", "i", "a", "l", " ", "p", "r", "o", "o", "f", " ",
        "m", "o", "d", "u", "l", "e">>
      [] s = "Checkout step reduction" ->
        <<"C", "h", "e", "c", "k", "o", "u", "t", " ", "s", "t", "e", "p",
        " ", "r", "e", "d", "u", "c", "t", "i", "o", "n">>
      [] s = "Social proof" ->
        <<"S", "o", "c", "i", "a", "l", " ", "p", "r", "o", "o", "f">>
      [] s = "high" ->
        <<"h", "i", "g", "h">>
      [] s = "medium" ->
        <<"m", "e", "d", "i", "u", "m">>
      [] s = "low" ->
        <<"l", "o", "w">>
      [] s = "Transparent heuristic model: each applicable cultural adaptation rule contributes an estimated lift factor (2-8% relative improvement). Factors compound multiplicatively and are discounted by audit compliance score. Baseline uses industry-average conversion rates." ->
        <<"T", "r", "a", "n", "s", "p", "a", "r", "e", "n", "t", " ", "h",
        "e", "u", "r", "i", "s", "t", "i", "c", " ", "m", "o", "d", "e",
        "l", ":", " ", "e", "a", "c", "h", " ", "a", "p", "p", "l", "i",
        "c", "a", "b", "l", "e", " ", "c", "u", "l", "t", "u", "r", "a",
        "l", " ", "a", "d", "a", "p", "t", "a", "t", "i", "o", "n", " ",
        "r", "u", "l", "e", " ", "c", "o", "n", "t", "r", "i", "b", "u",
        "t", "e", "s", " ", "a", "n", " ", "e", "s", "t", "i", "m", "a",
        "t", "e", "d", " ", "l", "i", "f", "t", " ", "f", "a", "c", "t",
        "o", "r", " ", "(", "2", "-", "8", "%", " ", "r", "e", "l", "a",
        "t", "i", "v", "e", " ", "i", "m", "p", "r", "o", "v", "e", "m",
        "e", "n", "t", ")", ".", " ", "F", "a", "c", "t", "o", "r", "s",
        " ", "c", "o", "m", "p", "o", "u", "n", "d", " ", "m", "u", "l",
        "t", "i", "p", "l", "i", "c", "a", "t", "i", "v", "e", "l", "y",
        " ", "a", "n", "d", " ", "a", "r", "e", " ", "d", "i", "s", "c",
        "o", "u", "n", "t", "e", "d", " ", "b", "y", " ", "a", "u", "d",
        "i", "t", " ", "c", "o", "m", "p", "l", "i", "a", "n", "c", "e",
        " ", "s", "c", "o", "r", "e", ".", " ", "B", "a", "s", "e", "l",
        "i", "n", "e", " ", "u", "s", "e", "s", " ", "i", "n", "d", "u",
        "s", "t", "r", "y", "-", "a", "v", "e", "r", "a", "g", "e", " ",
        "c", "o", "n", "v", "e", "r", "s", "i", "o", "n", " ", "r", "a",
        "t", "e", "s", ".">>
      [] s = "Baseline conversion rate assumed at " ->
        <<"B", "a", "s", "e", "l", "i", "n", "e", " ", "c", "o", "n", "v",
        "e", "r", "s", "i", "o", "n", " ", "r", "a", "t", "e", " ", "a",
        "s", "s", "u", "m", "e", "d", " ", "a", "t", " ">>
      [] s = "% (industry average for e-commerce)" ->
        <<"%", " ", "(", "i", "n", "d", "u", "s", "t", "r", "y", " ", "a",
        "v", "e", "r", "a", "g", "e", " ", "f", "o", "r", " ", "e", "-",
        "c", "o", "m", "m", "e", "r", "c", "e", ")">>
      [] s = " cultural adaptation factors applied with estimated impact ranges" ->
        <<" ", "c", "u", "l", "t", "u", "r", "a", "l", " ", "a", "d", "a",
        "p", "t", "a", "t", "i", "o", "n", " ", "f", "a", "c", "t", "o",
        "r", "s", " ", "a", "p", "p", "l", "i", "e", "d", " ", "w", "i",
        "t", "h", " ", "e", "s", "t", "i", "m", "a", "t", "e", "d", " ",
        "i", "m", "p", "a", "c", "t", " ", "r", "a", "n", "g", "e", "s">>
      [] s = "Lift factors are based on published e-commerce conversion optimization research patterns" ->
        <<"L", "i", "f", "t", " ", "f", "a", "c", "t", "o", "r", "s", " ",
        "a", "r", "e", " ", "b", "a", "s", "e", "d", " ", "o", "n", " ",
        "p", "u", "b", "l", "i", "s", "h", "e", "d", " ", "e", "-", "c",
        "o", "m", "m", "e", "r", "c", "e", " ", "c", "o", "n", "v", "e",
        "r", "s", "i", "o", "n", " ", "o", "p", "t", "i", "m", "i", "z",
        "a", "t", "i", "o", "n", " ", "r", "e", "s", "e", "a", "r", "c",
        "h", " ", "p", "a", "t", "t", "e", "r", "n", "s">>
      [] s = "Factors assume proper implementation of all adaptations" ->
        <<"F", "a", "c", "t", "o", "r", "s", " ", "a", "s", "s", "u", "m",
        "e", " ", "p", "r", "o", "p", "e", "r", " ", "i", "m", "p", "l",
        "e", "m", "e", "n", "t", "a", "t", "i", "o", "n", " ", "o", "f",
        " ", "a", "l", "l", " ", "a", "d", "a", "p", "t", "a", "t", "i",
        "o", "n", "s">>
      [] s = "Audit score (" ->
        <<"A", "u", "d", "i", "t", " ", "s", "c", "o", "r", "e", " ", "(">>
      [] s = "/100) applied as confidence multiplier" ->
        <<"/", "1", "0", "0", ")", " ", "a", "p", "p", "l", "i", "e", "d",
        " ", "a", "s", " ", "c", "o", "n", "f", "i", "d", "e", "n", "c",
        "e", " ", "m", "u", "l", "t", "i", "p", "l", "i", "e", "r">>
      [] s = "No actual A/B test data validates these predictions # they are simulated estimates" ->
        <<"N", "o", " ", "a", "c", "t", "u", "a", "l", " ", "A", "/", "B",
        " ", "t", "e", "s", "t", " ", "d", "a", "t", "a", " ", "v", "a",
        "l", "i", "d", "a", "t", "e", "s", " ", "t", "h", "e", "s", "e",
        " ", "p", "r", "e", "d", "i", "c", "t", "i", "o", "n", "s", " ",
        "#", " ", "t", "h", "e", "y", " ", "a", "r", "e", " ", "s", "i",
        "m", "u", "l", "a", "t", "e", "d", " ", "e", "s", "t", "i", "m",
        "a", "t", "e", "s">>
      [] s = "Real lift depends on product, market entry strategy, competition, and execution quality" ->
        <<"R", "e", "a", "l", " ", "l", "i", "f", "t", " ", "d", "e", "p",
        "e", "n", "d", "s", " ", "o", "n", " ", "p", "r", "o", "d", "u",
        "c", "t", ",", " ", "m", "a", "r", "k", "e", "t", " ", "e", "n",
        "t", "r", "y", " ", "s", "t", "r", "a", "t", "e", "g", "y", ",",
        " ", "c", "o", "m", "p", "e", "t", "i", "t", "i", "o", "n", ",",
        " ", "a", "n", "d", " ", "e", "x", "e", "c", "u", "t", "i", "o",
        "n", " ", "q", "u", "a", "l", "i", "t", "y">>
      [] s = "Predicted " ->
        <<"P", "r", "e", "d", "i", "c", "t", "e", "d", " ">>
      [] s = "% conversion lift based on " ->
        <<"%", " ", "c", "o", "n", "v", "e", "r", "s", "i", "o", "n", " ",
        "l", "i", "f", "t", " ", "b", "a", "s", "e", "d", " ", "o", "n", " ">>
      [] s = " applicable cultural adaptation factors. " ->
        <<" ", "a", "p", "p", "l", "i", "c", "a", "b", "l", "e", " ", "c",
        "u", "l", "t", "u", "r", "a", "l", " ", "a", "d", "a", "p", "t",
        "a", "t", "i", "o", "n", " ", "f", "a", "c", "t", "o", "r", "s",
        ".", " ">>
      [] s = "Audit compliance score of " ->
        <<"A", "u", "d", "i", "t", " ", "c", "o", "m", "p", "l", "i", "a",
        "n", "c", "e", " ", "s", "c", "o", "r", "e", " ", "o", "f", " ">>
      [] s = "/100 applied as confidence multiplier. " ->
        <<"/", "1", "0", "0", " ", "a", "p", "p", "l", "i", "e", "d", " ",
        "a", "s", " ", "c", "o", "n", "f", "i", "d", "e", "n", "c", "e",
        " ", "m", "u", "l", "t", "i", "p", "l", "i", "e", "r", ".", " ">>
      [] s = "Confidence level: " ->
        <<"C", "o", "n", "f", "i", "d", "e", "n", "c", "e", " ", "l", "e",
        "v", "e", "l", ":", " ">>
      [] s = ". " ->
        <<".", " ">>
      [] s = "This is a simulated prediction for demonstration purposes # real impact should be validated through controlled A/B testing." ->
        <<"T", "h", "i", "s", " ", "i", "s", " ", "a", " ", "s", "i", "m",
        "u", "l", "a", "t", "e", "d", " ", "p", "r", "e", "d", "i", "c",
        "t", "i", "o", "n", " ", "f", "o", "r", " ", "d", "e", "m", "o",
        "n", "s", "t", "r", "a", "t", "i", "o", "n", " ", "p", "u", "r",
        "p", "o", "s", "e", "s", " ", "#", " ", "r", "e", "a", "l", " ",
        "i", "m", "p", "a", "c", "t", " ", "s", "h", "o", "u", "l", "d",
        " ", "b", "e", " ", "v", "a", "l", "i", "d", "a", "t", "e", "d",
        " ", "t", "h", "r", "o", "u", "g", "h", " ", "c", "o", "n", "t",
        "r", "o", "l", "l", "e", "d", " ", "A", "/", "B", " ", "t", "e",
        "s", "t", "i", "n", "g", ".">>
      [] s = "Connection error." ->
        <<"C", "o", "n", "n", "e", "c", "t", "i", "o", "n", " ", "e", "r",
        "r", "o", "r", ".">>
      [] s = "Expecting value: line 1 column 1 (char 0)" ->
        <<"E", "x", "p", "e", "c", "t", "i", "n", "g", " ", "v", "a", "l",
        "u", "e", ":", " ", "l", "i", "n", "e", " ", "1", " ", "c", "o",
        "l", "u", "m", "n", " ", "1", " ", "(", "c", "h", "a", "r", " ",
        "0", ")">>
      [] s = "Values validated for the category." ->
        <<"V", "a", "l", "u", "e", "s", " ", "v", "a", "l", "i", "d", "a",
        "t", "e", "d", " ", "f", "o", "r", " ", "t", "h", "e", " ", "c",
        "a", "t", "e", "g", "o", "r", "y", ".">>
      [] s = "Dimensions reviewed against category context." ->
        <<"D", "i", "m", "e", "n", "s", "i", "o", "n", "s", " ", "r", "e",
        "v", "i", "e", "w", "e", "d", " ", "a", "g", "a", "i", "n", "s",
        "t", " ", "c", "a", "t", "e", "g", "o", "r", "y", " ", "c", "o",
        "n", "t", "e", "x", "t", ".">>
      [] s = "Trust need and uncertainty avoidance drive a reassurance-led layout." ->
        <<"T", "r", "u", "s", "t", " ", "n", "e", "e", "d", " ", "a", "n",
        "d", " ", "u", "n", "c", "e", "r", "t", "a", "i", "n", "t", "y",
        " ", "a", "v", "o", "i", "d", "a", "n", "c", "e", " ", "d", "r",
        "i", "v", "e", " ", "a", " ", "r", "e", "a", "s", "s", "u", "r",
        "a", "n", "c", "e", "-", "l", "e", "d", " ", "l", "a", "y", "o",
        "u", "t", ".">>
      [] s = "trust_need=" ->
        <<"t", "r", "u", "s", "t", "_", "n", "e", "e", "d", "=">>
      [] s = "High trust need calls for reassurance before checkout" ->
        <<"H", "i", "g", "h", " ", "t", "r", "u", "s", "t", " ", "n", "e",
        "e", "d", " ", "c", "a", "l", "l", "s", " ", "f", "o", "r", " ",
        "r", "e", "a", "s", "s", "u", "r", "a", "n", "c", "e", " ", "b",
        "e", "f", "o", "r", "e", " ", "c", "h", "e", "c", "k", "o", "u", "t">>
      [] s = "Guarantees reassure first-time buyers" ->
        <<"G", "u", "a", "r", "a", "n", "t", "e", "e", "s", " ", "r", "e",
        "a", "s", "s", "u", "r", "e", " ", "f", "i", "r", "s", "t", "-",
        "t", "i", "m", "e", " ", "b", "u", "y", "e", "r", "s">>
      [] s = "Baseline CTA maintained" ->
        <<"B", "a", "s", "e", "l", "i", "n", "e", " ", "C", "T", "A", " ",
        "m", "a", "i", "n", "t", "a", "i", "n", "e", "d">>
      [] s = ": Security reassurance." ->
        <<":", " ", "S", "e", "c", "u", "r", "i", "t", "y", " ", "r", "e",
        "a", "s", "s", "u", "r", "a", "n", "c", "e", ".">>
      [] s = "You will never regret it" ->
        <<"Y", "o", "u", " ", "w", "i", "l", "l", " ", "n", "e", "v", "e",
        "r", " ", "r", "e", "g", "r", "e", "t", " ", "i", "t">>
      [] s = "Minor concerns, easily addressed." ->
        <<"M", "i", "n", "o", "r", " ", "c", "o", "n", "c", "e", "r", "n",
        "s", ",", " ", "e", "a", "s", "i", "l", "y", " ", "a", "d", "d",
        "r", "e", "s", "s", "e", "d", ".">>
      [] s = "Guarantee rationale is generic" ->
        <<"G", "u", "a", "r", "a", "n", "t", "e", "e", " ", "r", "a", "t",
        "i", "o", "n", "a", "l", "e", " ", "i", "s", " ", "g", "e", "n",
        "e", "r", "i", "c">>
      [] s = "guarantees" ->
        <<"g", "u", "a", "r", "a", "n", "t", "e", "e", "s">>
      [] s = "Heuristic validated against comparable launches." ->
        <<"H", "e", "u", "r", "i", "s", "t", "i", "c", " ", "v", "a", "l",
        "i", "d", "a", "t", "e", "d", " ", "a", "g", "a", "i", "n", "s",
        "t", " ", "c", "o", "m", "p", "a", "r", "a", "b", "l", "e", " ",
        "l", "a", "u", "n", "c", "h", "e", "s", ".">>
      [] s = "They always buy here" ->
        <<"T", "h", "e", "y", " ", "a", "l", "w", "a", "y", "s", " ", "b",
        "u", "y", " ", "h", "e", "r", "e">>
      [] s = "Whenever you like" ->
        <<"W", "h", "e", "n", "e", "v", "e", "r", " ", "y", "o", "u", " ",
        "l", "i", "k", "e">>
      [] s = "Loved by People In " ->
        <<"L", "o", "v", "e", "d", " ", "b", "y", " ", "P", "e", "o", "p",
        "l", "e", " ", "I", "n", " ">>
      [] s = " regions" ->
        <<" ", "r", "e", "g", "i", "o", "n", "s">>
      [] s = "Typical of the region" ->
        <<"T", "y", "p", "i", "c", "a", "l", " ", "o", "f", " ", "t", "h",
        "e", " ", "r", "e", "g", "i", "o", "n">>
      [] s = "Free standard shipping" ->
        <<"F", "r", "e", "e", " ", "s", "t", "a", "n", "d", "a", "r", "d",
        " ", "s", "h", "i", "p", "p", "i", "n", "g">>
      [] s = ": Concise shipping summary." ->
        <<":", " ", "C", "o", "n", "c", "i", "s", "e", " ", "s", "h", "i",
        "p", "p", "i", "n", "g", " ", "s", "u", "m", "m", "a", "r", "y", ".">>
      [] s = "Looks nicer" ->
        <<"L", "o", "o", "k", "s", " ", "n", "i", "c", "e", "r">>
      [] s = "Customers expect it" ->
        <<"C", "u", "s", "t", "o", "m", "e", "r", "s", " ", "e", "x", "p",
        "e", "c", "t", " ", "i", "t">>
      [] s = "Shorter is better" ->
        <<"S", "h", "o", "r", "t", "e", "r", " ", "i", "s", " ", "b", "e",
        "t", "t", "e", "r">>
      [] s = "Fewer fields" ->
        <<"F", "e", "w", "e", "r", " ", "f", "i", "e", "l", "d", "s">>
      [] s = "Fewer clicks" ->
        <<"F", "e", "w", "e", "r", " ", "c", "l", "i", "c", "k", "s">>
      [] s = "All people in and everyone in the region: they always return, they never regret, typical of buyers" ->
        <<"A", "l", "l", " ", "p", "e", "o", "p", "l", "e", " ", "i", "n",
        " ", "a", "n", "d", " ", "e", "v", "e", "r", "y", "o", "n", "e",
        " ", "i", "n", " ", "t", "h", "e", " ", "r", "e", "g", "i", "o",
        "n", ":", " ", "t", "h", "e", "y", " ", "a", "l", "w", "a", "y",
        "s", " ", "r", "e", "t", "u", "r", "n", ",", " ", "t", "h", "e",
        "y", " ", "n", "e", "v", "e", "r", " ", "r", "e", "g", "r", "e",
        "t", ",", " ", "t", "y", "p", "i", "c", "a", "l", " ", "o", "f",
        " ", "b", "u", "y", "e", "r", "s">>
      [] s = " as they always do" ->
        <<" ", "a", "s", " ", "t", "h", "e", "y", " ", "a", "l", "w", "a",
        "y", "s", " ", "d", "o">>
      [] s = "CL=" ->
        <<"C", "L", "=">>
      [] s = "JP" ->
        <<"J", "P">>
      [] s = "GT" ->
        <<"G", "T">>
      [] s = "DE" ->
        <<"D", "E">>
      [] s = "XX" ->
        <<"X", "X">>
      [] s = "electronics" ->
        <<"e", "l", "e", "c", "t", "r", "o", "n", "i", "c", "s">>
      [] s = "unlisted" ->
        <<"u", "n", "l", "i", "s", "t", "e", "d">>
\* ---- literal table (end) ----

Pow10(k) == IF k = 0 THEN 1 ELSE IF k = 1 THEN 10 ELSE 100

\* repr of a float with at most two decimals: 2.3, 2.42, 6.0
FloatRepr(x) ==
    LET whole == x.units \div Pow10(x.scale)
        part == x.units % Pow10(x.scale)
    IN  NatToDigits(whole) \o <<".">> \o
        (IF x.scale = 2 /\ part % 10 # 0
         THEN NatToDigits(part \div 10) \o NatToDigits(part % 10)
         ELSE IF x.scale = 2 THEN NatToDigits(part \div 10)
         ELSE IF x.scale = 1 THEN NatToDigits(part)
         ELSE <<"0">>)

RenderPiece(piece) ==
    IF "lit" \in DOMAIN piece THEN LiteralChars(piece.lit)
    ELSE IF "num" \in DOMAIN piece THEN NatToDigits(piece.num)
    ELSE IF "dec" \in DOMAIN piece THEN FloatRepr(piece.dec)
    ELSE IF piece.val.float THEN NatToDigits(piece.val.n) \o <<".", "0">>
    ELSE NatToDigits(piece.val.n)

RECURSIVE Render(_)
Render(text) ==
    IF text = <<>> THEN <<>>
    ELSE RenderPiece(Head(text)) \o Render(Tail(text))

UpperChars == <<"A", "B", "C", "D", "E", "F", "G", "H", "I", "J", "K", "L", "M",
                "N", "O", "P", "Q", "R", "S", "T", "U", "V", "W", "X", "Y", "Z">>
LowerChars == <<"a", "b", "c", "d", "e", "f", "g", "h", "i", "j", "k", "l", "m",
                "n", "o", "p", "q", "r", "s", "t", "u", "v", "w", "x", "y", "z">>

UpperToLower ==
    [c \in {UpperChars[i] : i \in 1..26} |->
        LowerChars[CHOOSE i \in 1..26 : UpperChars[i] = c]]

LowerChar(c) == IF c \in DOMAIN UpperToLower THEN UpperToLower[c] ELSE c

\* s.lower()
PyLower(s) == [i \in 1..Len(s) |-> LowerChar(s[i])]

\* bool(text) for a str: the empty string is falsy
TruthyText(text) == Render(text) # <<>>

\* f"{n:03d}"
Pad3(n) ==
    IF n < 10 THEN <<"0", "0">> \o NatToDigits(n)
    ELSE IF n < 100 THEN <<"0">> \o NatToDigits(n)
    ELSE NatToDigits(n)

\* A dict the code iterates over (items()) keeps its insertion order: a
\* sequence of [k, v]. The values the code tests with isinstance carry their
\* Python type: a dict (d), a list (items) or something else.
PyDict(d) == [type |-> "dict", d |-> d, items |-> <<>>]
PyList(items) == [type |-> "list", d |-> EmptyDict, items |-> items]
PyStr(text) == [type |-> "str", d |-> EmptyDict, items |-> <<text>>]

OKeys(od) == {od[i].k : i \in 1..Len(od)}
OGet(od, k, default) ==
    IF k \in OKeys(od) THEN od[CHOOSE i \in 1..Len(od) : od[i].k = k].v
    ELSE default

\* Concatenation of a sequence of sequences
RECURSIVE Flatten(_)
Flatten(ss) == IF ss = <<>> THEN <<>> ELSE Head(ss) \o Flatten(Tail(ss))

\* ------------------------------------------------------------------------
\* Result objects
\* ------------------------------------------------------------------------
\* The result dict of a gateway call or of a stage is an ordered dict of
\* typed values (a JSON object): the audit iterates over the copy result and
\* tests the type of its values.

PyInt(n) == [type |-> "int", d |-> EmptyDict, items |-> <<n>>]
PyBool(b) == [type |-> "bool", d |-> EmptyDict, items |-> <<b>>]

\* The value a typed value stands for
Unwrap(v) ==
    CASE v.type = "dict" -> v.d
      [] v.type = "list" -> v.items
      [] OTHER -> v.items[1]

\* result.get(k, default)
JGet(result, k, default) ==
    IF k \in OKeys(result) THEN Unwrap(OGet(result, k, PyBool(FALSE))) ELSE default

\* k in result
JHas(result, k) == k \in OKeys(result)

\* bool(result.get("fallback"))
IsFallback(result) ==
    /\ JHas(result, "fallback")
    /\ OGet(result, "fallback", PyBool(FALSE)).type = "bool"
    /\ JGet(result, "fallback", FALSE)

\* ------------------------------------------------------------------------
\* agents/llm_client.py: the enrichment gateway
\* ------------------------------------------------------------------------
\* What the remote service does with one request: chat.completions.create
\* raises, or it returns a message whose content is empty, is text that is
\* not JSON, or is a JSON object.

\* `message` is the text of the exception: str(e).
ServiceRaises(message) == [kind |-> "exception", message |-> message, json |-> <<>>]
ServiceEmpty == [kind |-> "empty", message |-> <<>>, json |-> <<>>]
ServiceText(message) == [kind |-> "text", message |-> message, json |-> <<>>]
ServiceJson(obj) == [kind |-> "json", message |-> <<>>, json |-> obj]

\* LLMClient._fallback_response
fallback_response ==
    <<[k |-> "rationale",
       v |-> PyStr(<<L("Generated using fallback mode (Azure OpenAI not configured). Configure AZURE_OPENAI_ENDPOINT and AZURE_OPENAI_API_KEY for full functionality.")>>)],
      [k |-> "fallback", v |-> PyBool(TRUE)]>>

\* generate_structured whose `except Exception` clause is missing: a failure
\* of the remote call leaves the method as an exception.
generate_structured_reraise(client, event) ==
    IF ~client THEN [raised |-> FALSE, val |-> fallback_response]
    ELSE IF event.kind = "json" THEN [raised |-> FALSE, val |-> event.json]
    ELSE [raised |-> TRUE, val |-> <<>>]

\* LLMClient.generate_structured: [raised, val]. `client` is whether
\* self.client is set; `event` is what the remote service does.
generate_structured(client, event) ==
    IF ~client THEN [raised |-> FALSE, val |-> fallback_response]
    ELSE IF event.kind = "json" THEN [raised |-> FALSE, val |-> event.json]
    ELSE IF event.kind = "empty" THEN
        [raised |-> FALSE,
         val |-> <<[k |-> "error", v |-> PyStr(<<L("Empty response from LLM")>>)],
                   [k |-> "rationale", v |-> PyStr(<<L("Fallback due to empty response")>>)]>>]
    ELSE IF event.kind = "text" THEN
        \* json.loads raises JSONDecodeError
        [raised |-> FALSE,
         val |-> <<[k |-> "error", v |-> PyStr(event.message)],
                   [k |-> "rationale", v |-> PyStr(<<L("Failed to parse LLM response as JSON")>>)]>>]
    ELSE
        [raised |-> FALSE,
         val |-> <<[k |-> "error", v |-> PyStr(event.message)],
                   [k |-> "rationale",
                    v |-> PyStr(<<L("LLM call failed: ")>> \o event.message)]>>]

\* ------------------------------------------------------------------------
\* The seven behavioural dimensions
\* ------------------------------------------------------------------------

DimensionNames ==
    {"uncertainty_avoidance", "collectivism", "authority_distance",
     "context_level", "price_sensitivity", "trust_need", "friction_tolerance"}

\* ------------------------------------------------------------------------
\* State
\* ------------------------------------------------------------------------

VARIABLES
    mr_rules,   \* matcher harness: the rule table (dimension_ux_mapping.rules)
    mr_written, \* matcher harness: the comparator and threshold each rule of
                \* the table was written with (what the table's author meant)
    mr_dims,    \* matcher harness: the profile passed to get_applicable_rules
    mr_out,     \* matcher harness: the results of the calls made so far
    au_variant, \* audit harness: the bundle passed to _rule_based_audit
    au_strict,  \* audit harness: strict_mode
    au_out,     \* audit harness: the results of the calls made so far
    configured,      \* LLMClient.client is set (endpoint and key configured)
    cultural_priors, \* CulturalDataLoader._data["cultural_priors"]
    run,             \* the adapt_storefront requests: where each one stands
                     \* and its local variables
    variant_store,   \* VariantStore._store
    stored_as,       \* for each stored identifier, the content of its
                     \* bundle when store() was called
    reaudit,         \* the audit_variant request
    lift_variant,  \* lift harness: the bundle passed to _calculate_heuristic_lift
    lift_audit,    \* lift harness: the audit result passed with it
    lift_out,      \* lift harness: the results of the calls made so far
    ux_dimensions, \* UX harness: the profile passed to _rule_based_adaptation
    ux_base_spec,  \* UX harness: the base spec passed with it
    ux_out         \* UX harness: the results of the calls made so far

mr_vars == <<mr_rules, mr_written, mr_dims, mr_out>>
au_vars == <<au_variant, au_strict, au_out>>
app_vars == <<configured, cultural_priors, run, variant_store, stored_as, reaudit>>
fn_vars == <<lift_variant, lift_audit, lift_out, ux_dimensions, ux_base_spec, ux_out>>
vars == <<mr_vars, au_vars, app_vars, fn_vars>>

\* The harnesses at rest
MrIdle ==
    /\ mr_rules = <<>>
    /\ mr_written = <<>>
    /\ mr_dims = EmptyDict
    /\ mr_out = <<>>

AuIdle ==
    /\ au_variant = EmptyDict
    /\ au_strict = FALSE
    /\ au_out = <<>>

FnIdle ==
    /\ lift_variant = EmptyDict
    /\ lift_audit = EmptyDict
    /\ lift_out = <<>>
    /\ ux_dimensions = EmptyDict
    /\ ux_base_spec = EmptyDict
    /\ ux_out = <<>>

\* ------------------------------------------------------------------------
\* cultural_data.py: the rule matcher
\* ------------------------------------------------------------------------

\* get_applicable_rules with the prefix tests in the wrong order: ">" and "<"
\* are tried before ">=" and "<=", so ">=70" is cut after one character.
RuleOutcomePrefixOrder(rule, dimensions) ==
    LET dimension == rule.dimension
        condition == rule.condition
    IN  IF dimension \notin DOMAIN dimensions THEN "skip"
        ELSE IF /\ ~IsNumber(dimensions[dimension])
                /\ (StartsWith(condition, <<">">>) \/ StartsWith(condition, <<"<">>))
        THEN "raise"
        ELSE LET value == dimensions[dimension].n
                 t1 == PyFloat(SliceFrom(condition, 1))
             IN  IF StartsWith(condition, <<">">>) THEN
                     IF ~t1.ok THEN "raise"
                     ELSE IF value > t1.val THEN "append" ELSE "skip"
                 ELSE IF StartsWith(condition, <<"<">>) THEN
                     IF ~t1.ok THEN "raise"
                     ELSE IF value < t1.val THEN "append" ELSE "skip"
                 ELSE "skip"

\* get_applicable_rules parsing every condition: one that begins with none of
\* the four comparators is handed to float() whole and raises.
RuleOutcomeUnknownRaises(rule, dimensions) ==
    LET dimension == rule.dimension
        condition == rule.condition
    IN  IF dimension \notin DOMAIN dimensions THEN "skip"
        ELSE IF /\ ~IsNumber(dimensions[dimension])
                /\ (StartsWith(condition, <<">">>) \/ StartsWith(condition, <<"<">>))
        THEN "raise"
        ELSE LET value == dimensions[dimension].n
                 t2 == PyFloat(SliceFrom(condition, 2))
                 t1 == PyFloat(SliceFrom(condition, 1))
             IN  IF StartsWith(condition, <<">", "=">>) THEN
                     IF ~t2.ok THEN "raise"
                     ELSE IF value >= t2.val THEN "append" ELSE "skip"
                 ELSE IF StartsWith(condition, <<"<", "=">>) THEN
                     IF ~t2.ok THEN "raise"
                     ELSE IF value <= t2.val THEN "append" ELSE "skip"
                 ELSE IF StartsWith(condition, <<">">>) THEN
                     IF ~t1.ok THEN "raise"
                     ELSE IF value > t1.val THEN "append" ELSE "skip"
                 ELSE IF StartsWith(condition, <<"<">>) THEN
                     IF ~t1.ok THEN "raise"
                     ELSE IF value < t1.val THEN "append" ELSE "skip"
                 ELSE "raise"

\* One iteration of the loop of get_applicable_rules: "skip", "append", or
\* "raise" when float() rejects the threshold text.
RuleOutcome(rule, dimensions) ==
    LET dimension == rule.dimension
        condition == rule.condition
    IN  IF dimension \notin DOMAIN dimensions THEN "skip"
        ELSE IF /\ ~IsNumber(dimensions[dimension])
                /\ (StartsWith(condition, <<">">>) \/ StartsWith(condition, <<"<">>))
        THEN "raise"
        ELSE LET value == dimensions[dimension].n
                 t2 == PyFloat(SliceFrom(condition, 2))
                 t1 == PyFloat(SliceFrom(condition, 1))
             IN  IF StartsWith(condition, <<">", "=">>) THEN
                     IF ~t2.ok THEN "raise"
                     ELSE IF value >= t2.val THEN "append" ELSE "skip"
                 ELSE IF StartsWith(condition, <<"<", "=">>) THEN
                     IF ~t2.ok THEN "raise"
                     ELSE IF value <= t2.val THEN "append" ELSE "skip"
                 ELSE IF StartsWith(condition, <<">">>) THEN
                     IF ~t1.ok THEN "raise"
                     ELSE IF value > t1.val THEN "append" ELSE "skip"
                 ELSE IF StartsWith(condition, <<"<">>) THEN
                     IF ~t1.ok THEN "raise"
                     ELSE IF value < t1.val THEN "append" ELSE "skip"
                 ELSE "skip"

\* The loop over all_rules, from rule i on, with `applicable` built so far.
RECURSIVE ApplicableFrom(_, _, _, _)
ApplicableFrom(all_rules, dimensions, i, applicable) ==
    IF i > Len(all_rules) THEN [raised |-> FALSE, val |-> applicable]
    ELSE LET o == RuleOutcome(all_rules[i], dimensions)
         IN  IF o = "raise" THEN [raised |-> TRUE, val |-> <<>>]
             ELSE ApplicableFrom(all_rules, dimensions, i + 1,
                      IF o = "append" THEN Append(applicable, all_rules[i])
                      ELSE applicable)

\* CulturalDataLoader.get_applicable_rules: [raised, val]
get_applicable_rules(all_rules, dimensions) ==
    ApplicableFrom(all_rules, dimensions, 1, <<>>)

\* ------------------------------------------------------------------------
\* agents/compliance_auditor.py: the rule-based audit
\* ------------------------------------------------------------------------

essentializing_patterns ==
    <<L("always"), L("never"), L("all people in"), L("everyone in"),
      L("they always"), L("they never"), L("people in"), L("typical of")>>

dimension_tokens ==
    <<L("uncertainty"), L("collectivism"), L("authority"), L("context"),
      L("price"), L("trust"), L("friction"), L("ua="), L("cl=")>>

\* pattern.lower() in s, for s = text.lower()
PatternIn(pattern, s) == Contains(s, PyLower(Render(<<pattern>>)))

\* (mutant) the essentializing flag with the severity of the non-strict audit
EssentializingFlagMedium(key, pattern, strict_mode) ==
    [severity |-> "medium",
     description |-> <<L("Potentially essentializing language detected in "),
                       L(key), L(": contains '"), pattern, L("'")>>,
     recommendation |-> <<L("Rephrase to avoid generalizing statements. Use dimension-specific language instead.")>>,
     affected_element |-> <<L("copy."), L(key)>>,
     deduction |-> 10]

EssentializingFlag(key, pattern, strict_mode) ==
    [severity |-> IF ~strict_mode THEN "medium" ELSE "high",
     description |-> <<L("Potentially essentializing language detected in "),
                       L(key), L(": contains '"), pattern, L("'")>>,
     recommendation |-> <<L("Rephrase to avoid generalizing statements. Use dimension-specific language instead.")>>,
     affected_element |-> <<L("copy."), L(key)>>,
     deduction |-> 10]

\* The body of `for key, value in copy_data.items()` for one item: the flags
\* of the patterns found, in pattern order.
CopyItemFlags(key, value, strict_mode) ==
    IF value.type # "dict" THEN <<>>
    ELSE LET text == Get(value.d, "text", <<>>)
             rationale == Get(value.d, "rationale", <<>>)
             text_lower == PyLower(Render(text))
             rationale_lower == PyLower(Render(rationale))
             Found(pattern) == \/ PatternIn(pattern, text_lower)
                               \/ PatternIn(pattern, rationale_lower)
             found == SelectSeq(essentializing_patterns, Found)
         IN  [i \in 1..Len(found) |-> EssentializingFlag(key, found[i], strict_mode)]

CopyFlags(copy_data, strict_mode) ==
    Flatten([i \in 1..Len(copy_data) |->
                CopyItemFlags(copy_data[i].k, copy_data[i].v, strict_mode)])

ModuleFlag(mod_name) ==
    [severity |-> "low",
     description |-> <<L("Module '"), L(mod_name),
                       L("' rationale may not reference specific behavioral dimensions")>>,
     recommendation |-> <<L("Ensure rationale explicitly references dimension scores and mapping rules.")>>,
     affected_element |-> <<L("modules."), L(mod_name)>>,
     deduction |-> 5]

\* The body of `for mod_name, mod_data in modules.items()` for one item
ModuleItemFlags(mod_name, mod_data) ==
    IF mod_data.type # "dict" THEN <<>>
    ELSE LET rationale == Get(mod_data.d, "adaptation_rationale", <<>>)
             rationale_lower == PyLower(Render(rationale))
         IN  IF /\ TruthyText(rationale)
                /\ ~\E i \in 1..Len(dimension_tokens) :
                       Contains(rationale_lower, Render(<<dimension_tokens[i]>>))
             THEN <<ModuleFlag(mod_name)>>
             ELSE <<>>

ModuleFlags(modules) ==
    Flatten([i \in 1..Len(modules) |->
                ModuleItemFlags(modules[i].k, modules[i].v)])

FlowFlag(step) ==
    [severity |-> "medium",
     description |-> <<L("Flow step '"), L(Get(step, "name", "unknown")),
                       L("' adaptation lacks dimension driver")>>,
     recommendation |-> <<L("Add specific dimension and score that drives this adaptation.")>>,
     affected_element |-> <<L("flow."), L(Get(step, "step_id", "unknown"))>>,
     deduction |-> 8]

\* (mutant) one flag for a step, however many of its adaptations lack a driver
FlowStepFlagsOncePerStep(step) ==
    LET adaptations == Get(step, "adaptations", <<>>)
        Lacks(adaptation) == ~TruthyText(Get(adaptation, "dimension_driver", <<>>))
        lacking == SelectSeq(adaptations, Lacks)
    IN  IF lacking = <<>> THEN <<>> ELSE <<FlowFlag(step)>>

\* The body of `for step in flow` for one step
FlowStepFlags(step) ==
    LET adaptations == Get(step, "adaptations", <<>>)
        Lacks(adaptation) == ~TruthyText(Get(adaptation, "dimension_driver", <<>>))
        lacking == SelectSeq(adaptations, Lacks)
    IN  [i \in 1..Len(lacking) |-> FlowFlag(step)]

FlowFlags(flow) ==
    Flatten([i \in 1..Len(flow) |-> FlowStepFlags(flow[i])])

RECURSIVE SumDeductions(_)
SumDeductions(flags) ==
    IF flags = <<>> THEN 0 ELSE Head(flags).deduction + SumDeductions(Tail(flags))

Max(a, b) == IF a >= b THEN a ELSE b
Min(a, b) == IF a <= b THEN a ELSE b

\* (mutant) the flags a bundle already records are found again
FoundFlagsWithRecorded(variant, strict_mode) ==
    CopyFlags(Get(variant, "copy", <<>>), strict_mode)
    \o ModuleFlags(Get(variant, "modules", <<>>))
    \o FlowFlags(Get(variant, "flow", <<>>))
    \o [i \in 1..Len(Get(variant, "risk_flags", <<>>)) |-> ModuleFlag("recorded")]

\* The flags appended by the three loops, in the order they are appended
FoundFlags(variant, strict_mode) ==
    CopyFlags(Get(variant, "copy", <<>>), strict_mode)
    \o ModuleFlags(Get(variant, "modules", <<>>))
    \o FlowFlags(Get(variant, "flow", <<>>))

\* risk_flags: flag_counter is incremented exactly when a flag is appended,
\* so a flag's number is its position in the list.
RiskFlags(found) ==
    [i \in 1..Len(found) |->
        [flag_id |-> Render(<<L("FLAG_")>>) \o Pad3(i),
         severity |-> found[i].severity,
         description |-> found[i].description,
         recommendation |-> found[i].recommendation,
         affected_element |-> found[i].affected_element]]

\* (mutant) the score without the clamp to [0, 100]
AuditScoreUnclamped(found, strict_mode) ==
    100 - SumDeductions(found) - (IF strict_mode THEN 10 ELSE 0)

\* score: `score -= n` follows every append, so the deductions add up; the
\* strict-mode penalty and the clamp follow.
AuditScore(found, strict_mode) ==
    Max(0, Min(100, IF strict_mode THEN Max(0, 100 - SumDeductions(found) - 10)
                    ELSE 100 - SumDeductions(found)))

PositiveNotes(found, profile) ==
    (IF Len(found) = 0
     THEN <<"All adaptations include dimension-based justification">>
     ELSE <<>>)
    \o (IF Get(profile, "evidence", <<>>) # <<>>
        THEN <<"Cultural profile includes evidence sources">> ELSE <<>>)
    \o (IF TruthyText(Get(profile, "notes", <<>>))
        THEN <<"Cultural profile acknowledges limitations in notes">>
        ELSE <<>>)

\* The dict _rule_based_audit returns, given the flags its loops appended
AuditReport(found, strict_mode, profile) ==
    [audit_score |-> AuditScore(found, strict_mode),
     summary |-> <<L("Rule-based audit complete. Score: "),
                   N(AuditScore(found, strict_mode)),
                   L("/100 with "), N(Len(found)),
                   L(" flags identified.")>>,
     risk_flags |-> RiskFlags(found),
     recommended_changes |-> <<>>,
     positive_notes |-> PositiveNotes(found, profile),
     rationale |-> <<L("Audit performed using rule-based checks (LLM not available). Checks include: essentializing language detection, dimension justification verification, and flow adaptation coverage.")>>]

\* ComplianceAuditorAgent._rule_based_audit
rule_based_audit(variant, strict_mode) ==
    AuditReport(FoundFlags(variant, strict_mode), strict_mode,
                Get(variant, "cultural_profile", EmptyDict))

\* ------------------------------------------------------------------------
\* The data file loaded by CulturalDataLoader._load
\* ------------------------------------------------------------------------
\* The file is read once, at construction. The dimension values of the three
\* regions are those of the test fixtures; the rest of the file's content
\* (names, evidence, notes, the rule table, the category baselines) is given
\* the shape the code reads.

CountryCodes == {"JP", "GT", "DE"}

Dimensions(ua, col, auth, ctx, price, trust, fric) ==
    [uncertainty_avoidance |-> IntNum(ua), collectivism |-> IntNum(col),
     authority_distance |-> IntNum(auth), context_level |-> IntNum(ctx),
     price_sensitivity |-> IntNum(price), trust_need |-> IntNum(trust),
     friction_tolerance |-> IntNum(fric)]

japan_dimensions == Dimensions(82, 78, 54, 85, 45, 88, 72)
guatemala_dimensions == Dimensions(55, 72, 68, 70, 82, 75, 35)
germany_dimensions == Dimensions(75, 25, 30, 20, 55, 70, 65)

Prior(name, dimensions) ==
    [country_name |-> name,
     dimensions |-> dimensions,
     evidence |-> <<[source |-> "Hofstede Insights",
                     description |-> "Published cross-cultural framework scores"]>>,
     notes |-> <<L("Priors are population-level approximations, not descriptions of individuals.")>>]

\* _data["cultural_priors"] as loaded
LoadedPriors ==
    [cc \in CountryCodes |->
        CASE cc = "JP" -> Prior("Japan", japan_dimensions)
          [] cc = "GT" -> Prior("Guatemala", guatemala_dimensions)
          [] cc = "DE" -> Prior("Germany", germany_dimensions)]

\* A rule of the table: the condition is comparator and threshold written
\* one after the other, e.g. ">=70".
MappingRule(id, dim, cmp, thr, effect) ==
    [rule_id |-> id, dimension |-> dim, condition |-> cmp \o NatToDigits(thr),
     ux_effect |-> effect]

\* _data["dimension_ux_mapping"]["rules"]
MappingRules ==
    <<MappingRule("UA_HIGH_TRUST", "uncertainty_avoidance", <<">", "=">>, 70,
                  "increase_trust_modules"),
      MappingRule("UA_HIGH_CLARITY", "uncertainty_avoidance", <<">", "=">>, 70,
                  "increase_process_clarity"),
      MappingRule("CTX_LOW_EXPLICIT", "context_level", <<"<", "=">>, 35,
                  "increase_explicit_info"),
      MappingRule("COL_HIGH_SOCIAL", "collectivism", <<">", "=">>, 65,
                  "increase_social_proof"),
      MappingRule("FRIC_LOW_STREAMLINE", "friction_tolerance", <<"<", "=">>, 40,
                  "reduce_checkout_steps"),
      MappingRule("TRUST_HIGH_GUARANTEES", "trust_need", <<">", "=">>, 75,
                  "enhance_guarantees"),
      MappingRule("PRICE_HIGH_VALUE", "price_sensitivity", <<">", "=">>, 70,
                  "value_framing"),
      MappingRule("CTX_HIGH_IMPLICIT", "context_level", <<">", "=">>, 65,
                  "ambient_information"),
      MappingRule("COL_LOW_INDIVIDUAL", "collectivism", <<"<", "=">>, 35,
                  "individual_framing")>>

BaselineStep(id, name, description) ==
    [step_id |-> id, name |-> name, description |-> description]

BaselineFlow ==
    <<BaselineStep("browse", "Browse", "Product browsing"),
      BaselineStep("product_detail", "Product Detail", "Product detail page"),
      BaselineStep("cart", "Cart", "Shopping cart"),
      BaselineStep("shipping", "Shipping", "Shipping details"),
      BaselineStep("payment", "Payment", "Payment details"),
      BaselineStep("confirmation", "Confirmation", "Order confirmation")>>

BaselineCopy ==
    [cta_primary |-> <<L("Add to Cart")>>,
     cta_secondary |-> <<L("Save for Later")>>,
     value_proposition |-> <<L("Quality products at great prices")>>,
     urgency_text |-> <<L("Limited stock available")>>,
     social_proof_text |-> <<L("Rated 4.5/5 by customers")>>]

\* _data["product_baselines"]
ProductBaselines ==
    [c \in {"electronics", "fashion"} |->
        [product_category |-> c,
         baseline_flow |-> BaselineFlow,
         baseline_modules |-> EmptyDict,
         baseline_copy |-> BaselineCopy]]

\* CulturalDataLoader.get_product_baseline: [found, val]
get_product_baseline(product_category) ==
    IF product_category \in DOMAIN ProductBaselines
    THEN [found |-> TRUE, val |-> ProductBaselines[product_category]]
    ELSE [found |-> FALSE, val |-> EmptyDict]

\* ------------------------------------------------------------------------
\* cultural_data.py: the stored priors and the overrides
\* ------------------------------------------------------------------------
\* A dimensions dict is an object that several dicts can hold: the stored
\* prior's own dict ("prior", reached through the loader's data), or a dict
\* that one profile owns ("own").

PriorRef(cc) == [ref |-> "prior", cc |-> cc, own |-> EmptyDict]
OwnRef(dimensions) == [ref |-> "own", cc |-> "", own |-> dimensions]

\* The content of the dict at ref, with the loader's data being `priors`
Deref(priors, r) ==
    IF r.ref = "prior" THEN priors[r.cc].dimensions ELSE r.own

\* CulturalDataLoader.get_cultural_prior: [found, val]. The returned dict is
\* new; its "dimensions" is the stored dict itself.
get_cultural_prior(priors, country_code) ==
    IF country_code \in DOMAIN priors
    THEN [found |-> TRUE,
          val |-> [country_code |-> country_code,
                   country_name |-> priors[country_code].country_name,
                   dimensions |-> PriorRef(country_code),
                   evidence |-> priors[country_code].evidence,
                   notes |-> priors[country_code].notes]]
    ELSE [found |-> FALSE, val |-> EmptyDict]

\* CulturalDataLoader.get_cultural_prior_with_overrides: [priors, found, val],
\* priors being the loader's data after the call. Each override of a key of
\* prior["dimensions"] is an assignment into that dict; `notes +=` builds a
\* new string for the returned dict.
get_cultural_prior_with_overrides(priors, country_code, overrides) ==
    LET prior == get_cultural_prior(priors, country_code)
    IN  IF prior.found /\ overrides # EmptyDict
        THEN LET stored == priors[country_code].dimensions
                 assigned == [k \in DOMAIN stored |->
                                 IF k \in DOMAIN overrides THEN overrides[k]
                                 ELSE stored[k]]
             IN  [priors |-> [priors EXCEPT ![country_code].dimensions = assigned],
                  found |-> TRUE,
                  val |-> [prior.val EXCEPT
                              !.notes = @ \o <<L(" [Manual overrides applied to some dimensions]")>>]]
        ELSE [priors |-> priors, found |-> prior.found, val |-> prior.val]

\* ------------------------------------------------------------------------
\* agents/cultural_intelligence.py: the Resolver
\* ------------------------------------------------------------------------

\* _default_profile with one dimension away from the midpoint
default_profile_off_midpoint(country_code) ==
    [country_code |-> country_code,
     dimensions |-> OwnRef(Dimensions(50, 50, 50, 50, 50, 50, 40)),
     evidence |-> <<[source |-> "Default baseline",
                     description |-> "No specific cultural data available; using neutral midpoint values."]>>,
     notes |-> <<L("No cultural priors available for "), L(country_code),
                 L(". Using default neutral values.")>>,
     rationale |-> <<L("Default neutral profile applied due to missing cultural data.")>>,
     dimension_rationales |-> EmptyDict]

\* CulturalIntelligenceAgent._default_profile
default_profile(country_code) ==
    [country_code |-> country_code,
     dimensions |-> OwnRef(Dimensions(50, 50, 50, 50, 50, 50, 50)),
     evidence |-> <<[source |-> "Default baseline",
                     description |-> "No specific cultural data available; using neutral midpoint values."]>>,
     notes |-> <<L("No cultural priors available for "), L(country_code),
                 L(". Using default neutral values.")>>,
     rationale |-> <<L("Default neutral profile applied due to missing cultural data.")>>,
     dimension_rationales |-> EmptyDict]

\* analyze, from the return of generate_structured to its own return: the
\* profile built from the gateway's result and base_prior.
analyze_profile(country_code, product_category, base_prior, result) ==
    IF JHas(result, "dimensions") /\ ~IsFallback(result)
    THEN [country_code |-> country_code,
          dimensions |-> OwnRef(JGet(result, "dimensions", EmptyDict)),
          evidence |-> JGet(result, "evidence", base_prior.evidence),
          notes |-> JGet(result, "notes", base_prior.notes),
          rationale |-> JGet(result, "rationale", <<L("")>>),
          dimension_rationales |-> JGet(result, "dimension_rationales", EmptyDict)]
    ELSE [country_code |-> country_code,
          dimensions |-> base_prior.dimensions,
          evidence |-> base_prior.evidence,
          notes |-> base_prior.notes,
          rationale |-> <<L("Base cultural priors for "), L(country_code),
                          L(" in "), L(product_category),
                          L(" context. LLM enrichment not available.")>>,
          dimension_rationales |-> EmptyDict]

\* ------------------------------------------------------------------------
\* agents/ux_adaptation.py: the rule-based adaptation
\* ------------------------------------------------------------------------

\* UXAdaptationAgent._default_base_spec
default_base_spec ==
    [product_category |-> "general",
     baseline_flow |->
        <<BaselineStep("browse", "Browse", "Product browsing"),
          BaselineStep("detail", "Product Detail", "Product detail page"),
          BaselineStep("cart", "Cart", "Shopping cart"),
          BaselineStep("checkout", "Checkout", "Checkout process"),
          BaselineStep("confirm", "Confirmation", "Order confirmation")>>,
     baseline_modules |-> EmptyDict]

\* {**step, "adaptations": []}
WithNoAdaptations(step) ==
    [k \in DOMAIN step \cup {"adaptations"} |->
        IF k = "adaptations" THEN <<>> ELSE step[k]]

\* The combined step with an adaptation that names no driver
ExpressCheckoutStepUndriven(dimensions) ==
    [step_id |-> "express_checkout",
     name |-> "Express Checkout",
     description |-> "Combined shipping and payment in a single streamlined step",
     adaptations |->
        <<[change |-> "Combined shipping and payment steps",
           rationale |-> <<L("Low friction tolerance requires streamlined flow to prevent cart abandonment")>>]>>,
     required_fields |-> <<"full_name", "address", "payment_method">>,
     validations |-> <<"address_format">>]

\* The step that replaces the shipping step when the checkout is streamlined
ExpressCheckoutStep(dimensions) ==
    [step_id |-> "express_checkout",
     name |-> "Express Checkout",
     description |-> "Combined shipping and payment in a single streamlined step",
     adaptations |->
        <<[change |-> "Combined shipping and payment steps",
           dimension_driver |-> <<L("friction_tolerance="),
                                  V(Get(dimensions, "friction_tolerance", IntNum(50)))>>,
           rationale |-> <<L("Low friction tolerance requires streamlined flow to prevent cart abandonment")>>]>>,
     required_fields |-> <<"full_name", "address", "payment_method">>,
     validations |-> <<"address_format">>]

\* The steps one baseline step contributes when the checkout is streamlined
StreamlinedStep(step, dimensions) ==
    IF step.step_id = "shipping" THEN <<ExpressCheckoutStep(dimensions)>>
    ELSE IF step.step_id # "payment" THEN <<WithNoAdaptations(step)>>
    ELSE <<>>

\* ", ".join(themes)
RECURSIVE JoinComma(_)
JoinComma(themes) ==
    IF Len(themes) <= 1 THEN themes
    ELSE <<Head(themes), L(", ")>> \o JoinComma(Tail(themes))

\* The collectivism test with the threshold itself excluded
HighCollectivismAbove(dimensions) ==
    Get(dimensions, "collectivism", IntNum(50)).n > 65

\* dimensions.get("collectivism", 50) >= 65
HighCollectivism(dimensions) ==
    Get(dimensions, "collectivism", IntNum(50)).n >= 65

\* UXAdaptationAgent._rule_based_adaptation
rule_based_adaptation(dimensions, rules, base_spec, price_band) ==
    LET D(k) == Get(dimensions, k, IntNum(50))
        base_flow == Get(base_spec, "baseline_flow", <<>>)
        low_friction == D("friction_tolerance").n <= 40
        high_col == HighCollectivism(dimensions)
        high_trust == D("trust_need").n >= 75
        high_ua == D("uncertainty_avoidance").n >= 70
        low_ctx == D("context_level").n <= 35
        high_price == D("price_sensitivity").n >= 70
        flow == IF low_friction
                THEN Flatten([i \in 1..Len(base_flow) |->
                                 StreamlinedStep(base_flow[i], dimensions)])
                ELSE [i \in 1..Len(base_flow) |-> WithNoAdaptations(base_flow[i])]
        modules ==
            <<[k |-> "reviews", v |-> PyDict(
                 [enabled |-> TRUE,
                  placement |-> IF high_col THEN "above_fold" ELSE "below_fold",
                  style |-> IF high_col THEN "community" ELSE "stars",
                  adaptation_rationale |->
                     <<L("Collectivism="), V(D("collectivism")), L(": "),
                       IF high_col THEN L("Strong social proof emphasis")
                       ELSE L("Standard review display")>>])],
              [k |-> "guarantees", v |-> PyDict(
                 [enabled |-> TRUE,
                  types |-> IF high_trust
                            THEN <<"money-back guarantee", "authenticity guarantee",
                                   "secure payment", "official warranty">>
                            ELSE <<"30-day returns", "manufacturer warranty">>,
                  prominence |-> IF high_trust THEN "high" ELSE "medium",
                  adaptation_rationale |->
                     <<L("Trust need="), V(D("trust_need")), L(": "),
                       IF high_trust THEN L("Enhanced guarantee prominence")
                       ELSE L("Standard guarantees")>>])],
              [k |-> "shipping_info", v |-> PyDict(
                 [enabled |-> TRUE,
                  placement |-> IF high_ua THEN "above_fold" ELSE "product_detail",
                  detail_level |-> IF low_ctx THEN "detailed" ELSE "standard",
                  adaptation_rationale |->
                     <<L("UA="), V(D("uncertainty_avoidance")), L(", CL="),
                       V(D("context_level")), L(": "),
                       IF high_ua THEN L("Detailed upfront shipping info")
                       ELSE L("Standard shipping display")>>])],
              [k |-> "returns", v |-> PyDict(
                 [enabled |-> TRUE,
                  prominence |-> IF high_ua THEN "high" ELSE "medium",
                  adaptation_rationale |->
                     <<L("UA="), V(D("uncertainty_avoidance")), L(": "),
                       IF high_ua THEN L("High prominence returns policy")
                       ELSE L("Standard returns")>>])],
              [k |-> "payment_options", v |-> PyDict(
                 [enabled |-> TRUE,
                  show_installments |-> high_price,
                  show_local_methods |-> TRUE,
                  emphasized_methods |->
                     IF high_price THEN <<"installments", "BNPL", "mobile_payment">>
                     ELSE <<"credit_card", "debit_card">>,
                  adaptation_rationale |->
                     <<L("Price sensitivity="), V(D("price_sensitivity")), L(": "),
                       IF high_price THEN L("Installment and flexible payment emphasis")
                       ELSE L("Standard payment options")>>])],
              [k |-> "social_proof", v |-> PyDict(
                 [enabled |-> high_col,
                  type |-> IF high_col THEN "community" ELSE "individual",
                  placement |-> IF high_col THEN "above_fold" ELSE "sidebar",
                  adaptation_rationale |->
                     <<L("Collectivism="), V(D("collectivism")), L(": "),
                       IF high_col THEN L("Community-driven social proof")
                       ELSE L("Individual testimonials")>>])]>>
        themes ==
            (IF high_trust THEN <<L("trust-first")>> ELSE <<>>)
            \o (IF low_friction THEN <<L("efficiency-driven")>> ELSE <<>>)
            \o (IF high_col THEN <<L("community-validated")>> ELSE <<>>)
            \o (IF low_ctx THEN <<L("information-rich")>> ELSE <<>>)
            \o (IF high_price THEN <<L("value-oriented")>> ELSE <<>>)
        theme == IF themes # <<>> THEN JoinComma(themes) ELSE <<L("balanced")>>
    IN  <<[k |-> "theme_emphasis", v |-> PyStr(theme)],
          [k |-> "rationale", v |-> PyStr(
             <<L("Adaptation driven by "), N(Len(rules)),
               L(" applicable mapping rules for "), N(Len(themes)),
               L(" identified behavioral patterns. Generated using rule-based fallback.")>>)],
          [k |-> "flow", v |-> PyList(flow)],
          [k |-> "modules", v |-> PyDict(modules)]>>

\* ------------------------------------------------------------------------
\* agents/copy_framing.py: the rule-based copy
\* ------------------------------------------------------------------------
\* In the literals a character outside ASCII is written "#".

CopyItem(text, rationale) == PyDict([text |-> text, rationale |-> rationale])

MicrocopyItem(location, text, rationale) ==
    [location |-> location, text |-> text, rationale |-> rationale]

\* CopyFramingAgent._rule_based_copy
rule_based_copy(dimensions, base_copy) ==
    LET D(k) == Get(dimensions, k, IntNum(50))
        \* f"{dimensions.get(k)}"
        F(k) == IF k \in DOMAIN dimensions THEN V(dimensions[k]) ELSE L("None")
        high_collectivism == D("collectivism").n >= 65
        high_ua == D("uncertainty_avoidance").n >= 70
        high_price_sens == D("price_sensitivity").n >= 70
        low_context == D("context_level").n <= 35
        high_trust == D("trust_need").n >= 75
        cta_primary ==
            IF high_collectivism THEN
                CopyItem(<<L("Join thousands who chose this ### Add to Cart")>>,
                         <<L("Collectivism="), F("collectivism"),
                           L(": Group validation framing emphasizes community consensus.")>>)
            ELSE IF low_context THEN
                CopyItem(<<L("Add to Cart ### Free shipping, 30-day returns")>>,
                         <<L("Context level="), F("context_level"),
                           L(": Low-context preference requires explicit benefit information in CTA.")>>)
            ELSE
                CopyItem(Get(base_copy, "cta_primary", <<L("Add to Cart")>>),
                         <<L("Baseline CTA maintained ### no strong dimension-driven change indicated.")>>)
        cta_secondary ==
            IF high_collectivism THEN
                CopyItem(<<L("Share with friends")>>,
                         <<L("Collectivism="), F("collectivism"),
                           L(": Social sharing supports group-oriented decision making.")>>)
            ELSE
                CopyItem(<<L("Save to your wishlist")>>,
                         <<L("Collectivism="), F("collectivism"),
                           L(": Individual-oriented save action.")>>)
        value_prop ==
            IF high_trust /\ high_ua THEN
                CopyItem(<<L("Trusted by experts. Backed by our guarantee. Quality you can count on.")>>,
                         <<L("Trust need="), F("trust_need"), L(", UA="),
                           F("uncertainty_avoidance"),
                           L(": Trust and reliability framing for risk-averse audience.")>>)
            ELSE IF high_price_sens THEN
                CopyItem(<<L("Exceptional value ### premium quality at the best price. Compare and save.")>>,
                         <<L("Price sensitivity="), F("price_sensitivity"),
                           L(": Value-first framing with comparison invitation.")>>)
            ELSE
                CopyItem(Get(base_copy, "value_proposition", <<L("Quality products for you")>>),
                         <<L("Baseline value proposition ### balanced approach.")>>)
        urgency ==
            IF high_collectivism THEN
                CopyItem(<<L("Popular choice ### 500+ customers bought this today")>>,
                         <<L("Collectivism="), F("collectivism"),
                           L(": Social proof urgency leverages group behavior.")>>)
            ELSE IF high_ua THEN
                CopyItem(<<L("Secure your order now ### our guarantee covers every purchase")>>,
                         <<L("UA="), F("uncertainty_avoidance"),
                           L(": Reassurance-based urgency reduces perceived risk.")>>)
            ELSE
                CopyItem(Get(base_copy, "urgency_text", <<L("Limited availability")>>),
                         <<L("Standard scarcity-based urgency.")>>)
        social ==
            IF high_collectivism THEN
                CopyItem(<<L("Rated 4.8/5 by our community of 25,000+ verified buyers")>>,
                         <<L("Collectivism="), F("collectivism"),
                           L(": Community-scale social proof with verification emphasis.")>>)
            ELSE
                CopyItem(<<L("Independently reviewed and rated 4.8/5 stars")>>,
                         <<L("Collectivism="), F("collectivism"),
                           L(": Individual-oriented review framing with independence emphasis.")>>)
        microcopy ==
            (IF high_trust THEN
                <<MicrocopyItem("checkout_button",
                    <<L("#### Secure checkout ### your information is protected")>>,
                    <<L("Trust need="), F("trust_need"),
                      L(": Security reassurance at point of commitment.")>>)>>
             ELSE <<>>)
            \o (IF high_ua THEN
                <<MicrocopyItem("trust_badge",
                    <<L("### 100% money-back guarantee ### ### Verified seller ### ### Secure payment")>>,
                    <<L("UA="), F("uncertainty_avoidance"),
                      L(": Multiple trust signals reduce uncertainty at decision point.")>>)>>
             ELSE <<>>)
            \o (IF high_price_sens THEN
                <<MicrocopyItem("price_area",
                    <<L("#### Best price guarantee ### we'll match any lower price")>>,
                    <<L("Price sensitivity="), F("price_sensitivity"),
                      L(": Price-match messaging reduces price anxiety.")>>)>>
             ELSE <<>>)
            \o <<MicrocopyItem("shipping_note",
                    IF ~low_context
                    THEN <<L("Free standard shipping ### Easy returns")>>
                    ELSE <<L("Free shipping (3-5 business days) ### 30-day free returns ### Full refund policy")>>,
                    <<L("Context level="), F("context_level"), L(": "),
                      IF low_context
                      THEN L("Detailed shipping terms for low-context preference")
                      ELSE L("Concise shipping summary"),
                      L(".")>>)>>
    IN  <<[k |-> "cta_primary", v |-> cta_primary],
          [k |-> "cta_secondary", v |-> cta_secondary],
          [k |-> "value_proposition", v |-> value_prop],
          [k |-> "urgency_text", v |-> urgency],
          [k |-> "social_proof_text", v |-> social],
          [k |-> "microcopy", v |-> PyList(microcopy)]>>

\* ------------------------------------------------------------------------
\* agents/experimentation.py: the impact heuristic
\* ------------------------------------------------------------------------

\* RULE_LIFT_FACTORS, each factor times 100
RULE_LIFT_FACTORS ==
    [increase_trust_modules |-> 5, increase_process_clarity |-> 3,
     increase_explicit_info |-> 4, increase_social_proof |-> 6,
     reduce_checkout_steps |-> 8, enhance_guarantees |-> 4,
     value_framing |-> 5, add_authority_signals |-> 3,
     ambient_information |-> 2, individual_framing |-> 3]

\* BASELINE_RATES, times 100
BASELINE_RATES ==
    [electronics |-> 210, fashion |-> 280, food_beverage |-> 350,
     home_garden |-> 180, health_beauty |-> 300]

\* The default baseline, times 100 (2.3)
BaselineHundredths == 230

\* One entry of applied_factors: f"+{factor*100:.1f}%"
AppliedFactor(rule, factor) ==
    [rule |-> rule, lift |-> <<L("+"), R(Dec(factor * 10, 1)), L("%")>>,
     factor |-> factor]

\* modules.get(name, {}).get(field)
ModuleField(modules, name, field, default) ==
    LET mod == OGet(modules, name, PyDict(EmptyDict))
    IN  Get(mod.d, field, default)

\* applied_factors with the social_proof module entered whatever was
\* entered before it, and one entry for every express_checkout step
applied_factors_repeated(variant) ==
    LET modules == Get(variant, "modules", <<>>)
        flow == Get(variant, "flow", <<>>)
        f1 == IF ModuleField(modules, "reviews", "placement", "") = "above_fold"
              THEN <<AppliedFactor(L("Social proof emphasis"),
                                   RULE_LIFT_FACTORS["increase_social_proof"])>>
              ELSE <<>>
        f2 == IF ModuleField(modules, "guarantees", "prominence", "") = "high"
              THEN <<AppliedFactor(L("Enhanced guarantees"),
                                   RULE_LIFT_FACTORS["enhance_guarantees"])>>
              ELSE <<>>
        f3 == IF ModuleField(modules, "shipping_info", "placement", "") = "above_fold"
              THEN <<AppliedFactor(L("Trust modules above fold"),
                                   RULE_LIFT_FACTORS["increase_trust_modules"])>>
              ELSE <<>>
        f4 == IF ModuleField(modules, "payment_options", "show_installments", FALSE)
              THEN <<AppliedFactor(L("Value/installment framing"),
                                   RULE_LIFT_FACTORS["value_framing"])>>
              ELSE <<>>
        before == f1 \o f2 \o f3 \o f4
        f5 == IF ModuleField(modules, "social_proof", "enabled", FALSE)
              THEN <<AppliedFactor(L("Social proof module"),
                                   RULE_LIFT_FACTORS["increase_social_proof"])>>
              ELSE <<>>
        f6 == Flatten([i \in 1..Len(flow) |->
                 IF Get(flow[i], "step_id", "") = "express_checkout"
                 THEN <<AppliedFactor(L("Checkout step reduction"),
                                      RULE_LIFT_FACTORS["reduce_checkout_steps"])>>
                 ELSE <<>>])
    IN  before \o f5 \o f6

\* applied_factors as the checks of _calculate_heuristic_lift build it
applied_factors(variant) ==
    LET modules == Get(variant, "modules", <<>>)
        flow == Get(variant, "flow", <<>>)
        f1 == IF ModuleField(modules, "reviews", "placement", "") = "above_fold"
              THEN <<AppliedFactor(L("Social proof emphasis"),
                                   RULE_LIFT_FACTORS["increase_social_proof"])>>
              ELSE <<>>
        f2 == IF ModuleField(modules, "guarantees", "prominence", "") = "high"
              THEN <<AppliedFactor(L("Enhanced guarantees"),
                                   RULE_LIFT_FACTORS["enhance_guarantees"])>>
              ELSE <<>>
        f3 == IF ModuleField(modules, "shipping_info", "placement", "") = "above_fold"
              THEN <<AppliedFactor(L("Trust modules above fold"),
                                   RULE_LIFT_FACTORS["increase_trust_modules"])>>
              ELSE <<>>
        f4 == IF ModuleField(modules, "payment_options", "show_installments", FALSE)
              THEN <<AppliedFactor(L("Value/installment framing"),
                                   RULE_LIFT_FACTORS["value_framing"])>>
              ELSE <<>>
        before == f1 \o f2 \o f3 \o f4
        f5 == IF /\ ModuleField(modules, "social_proof", "enabled", FALSE)
                 /\ ~\E i \in 1..Len(before) :
                        Contains(Render(<<before[i].rule>>),
                                 Render(<<L("Social proof")>>))
              THEN <<AppliedFactor(L("Social proof module"),
                                   RULE_LIFT_FACTORS["increase_social_proof"])>>
              ELSE <<>>
        f6 == IF \E i \in 1..Len(flow) :
                     Get(flow[i], "step_id", "") = "express_checkout"
              THEN <<AppliedFactor(L("Checkout step reduction"),
                                   RULE_LIFT_FACTORS["reduce_checkout_steps"])>>
              ELSE <<>>
    IN  before \o f5 \o f6

\* Decimal digits, least significant first, times m plus carry
RECURSIVE MulDigits(_, _, _)
MulDigits(ds, m, carry) ==
    IF ds = <<>>
    THEN (IF carry = 0 THEN <<>>
          ELSE <<carry % 10>> \o MulDigits(<<>>, m, carry \div 10))
    ELSE LET t == Head(ds) * m + carry
         IN  <<t % 10>> \o MulDigits(Tail(ds), m, t \div 10)

\* The product of (1 + factor) over the applied factors, times 100^k
RECURSIVE CompoundDigits(_)
CompoundDigits(factors) ==
    IF factors = <<>> THEN <<1>>
    ELSE MulDigits(CompoundDigits(Tail(factors)), 100 + Head(factors).factor, 0)

RECURSIVE DigitsValue(_)
DigitsValue(ds) ==
    IF ds = <<>> THEN 0 ELSE Head(ds) + 10 * DigitsValue(Tail(ds))

\* round(baseline * (1 + (compound_factor - 1) * audit_score / 100), 2),
\* times 100. compound_factor is at least 1 and less than 2, so
\* compound_factor - 1 is the 2k low digits of the product of k factors. The
\* quotient is rounded half up, which is what the float computation gives
\* for every combination of factors and every score in 0..100.
PredictedHundredths(factors, audit_score) ==
    LET k == Len(factors)
        product == CompoundDigits(factors)
        excess == SubSeq(product, 1, 2 * k)
        scaled == MulDigits(MulDigits(excess, audit_score, 0), BaselineHundredths, 0)
        cut == 2 * k + 2
        quotient == IF Len(scaled) > cut THEN SubSeq(scaled, cut + 1, Len(scaled))
                    ELSE <<>>
        half_up == IF Len(scaled) >= cut /\ scaled[cut] >= 5 THEN 1 ELSE 0
    IN  BaselineHundredths + DigitsValue(quotient) + half_up

\* round((predicted - baseline) / baseline * 100, 1), times 10
LiftTenths(predicted) ==
    (2000 * (predicted - BaselineHundredths) + BaselineHundredths)
        \div (2 * BaselineHundredths)

\* The confidence with the score thresholds exclusive
ConfidenceLevelExclusive(num_factors, audit_score) ==
    IF num_factors >= 4 /\ audit_score > 80 THEN L("high")
    ELSE IF num_factors >= 2 /\ audit_score > 60 THEN L("medium")
    ELSE L("low")

\* "Determine confidence"
ConfidenceLevel(num_factors, audit_score) ==
    IF num_factors >= 4 /\ audit_score >= 80 THEN L("high")
    ELSE IF num_factors >= 2 /\ audit_score >= 60 THEN L("medium")
    ELSE L("low")

\* ExperimentationAgent._calculate_heuristic_lift
calculate_heuristic_lift(variant, audit_result) ==
    LET factors == applied_factors(variant)
        audit_score == JGet(audit_result, "audit_score", 80)
        predicted == PredictedHundredths(factors, audit_score)
        lift_pct == Dec(LiftTenths(predicted), 1)
        num_factors == Len(factors)
        confidence == ConfidenceLevel(num_factors, audit_score)
        baseline == Dec(BaselineHundredths, 2)
    IN  [metric |-> "conversion_rate",
         baseline |-> baseline,
         predicted |-> Dec(predicted, 2),
         lift_percentage |-> lift_pct,
         confidence_level |-> <<confidence>>,
         method |-> <<L("Transparent heuristic model: each applicable cultural adaptation rule contributes an estimated lift factor (2-8% relative improvement). Factors compound multiplicatively and are discounted by audit compliance score. Baseline uses industry-average conversion rates.")>>,
         assumptions |->
            <<<<L("Baseline conversion rate assumed at "), R(baseline),
                L("% (industry average for e-commerce)")>>,
              <<N(num_factors),
                L(" cultural adaptation factors applied with estimated impact ranges")>>,
              <<L("Lift factors are based on published e-commerce conversion optimization research patterns")>>,
              <<L("Factors assume proper implementation of all adaptations")>>,
              <<L("Audit score ("), N(audit_score),
                L("/100) applied as confidence multiplier")>>,
              <<L("No actual A/B test data validates these predictions # they are simulated estimates")>>,
              <<L("Real lift depends on product, market entry strategy, competition, and execution quality")>>>>,
         applied_factors |-> [i \in 1..Len(factors) |->
                                 [rule |-> factors[i].rule, lift |-> factors[i].lift]],
         ab_test_plan |->
            [recommended_sample_size |-> 5000,
             recommended_duration_days |-> 14,
             success_metric |-> "conversion_rate",
             segments |-> <<"new_visitors", "returning_visitors">>,
             statistical_significance_target |-> Dec(95, 2)],
         rationale |->
            <<L("Predicted "), R(lift_pct), L("% conversion lift based on "),
              N(num_factors), L(" applicable cultural adaptation factors. "),
              L("Audit compliance score of "), N(audit_score),
              L("/100 applied as confidence multiplier. "),
              L("Confidence level: "), confidence, L(". "),
              L("This is a simulated prediction for demonstration purposes # real impact should be validated through controlled A/B testing.")>>]

\* predict with an enriched result that reports the baseline as predicted
predict_result_enrichment_resets(heuristic, llm_result) ==
    IF ~IsFallback(llm_result) /\ JHas(llm_result, "confidence_level")
    THEN [metric |-> "conversion_rate",
          baseline |-> heuristic.baseline,
          predicted |-> heuristic.baseline,
          lift_percentage |-> Dec(0, 1),
          confidence_level |-> JGet(llm_result, "confidence_level",
                                    heuristic.confidence_level),
          method |-> JGet(llm_result, "method", heuristic.method),
          assumptions |-> JGet(llm_result, "assumptions", heuristic.assumptions),
          ab_test_plan |-> JGet(llm_result, "ab_test_plan", heuristic.ab_test_plan),
          rationale |-> JGet(llm_result, "rationale", heuristic.rationale)]
    ELSE heuristic

\* predict, from the return of generate_structured to its own return
predict_result(heuristic, llm_result) ==
    IF ~IsFallback(llm_result) /\ JHas(llm_result, "confidence_level")
    THEN [metric |-> "conversion_rate",
          baseline |-> heuristic.baseline,
          predicted |-> heuristic.predicted,
          lift_percentage |-> heuristic.lift_percentage,
          confidence_level |-> JGet(llm_result, "confidence_level",
                                    heuristic.confidence_level),
          method |-> JGet(llm_result, "method", heuristic.method),
          assumptions |-> JGet(llm_result, "assumptions", heuristic.assumptions),
          ab_test_plan |-> JGet(llm_result, "ab_test_plan", heuristic.ab_test_plan),
          rationale |-> JGet(llm_result, "rationale", heuristic.rationale)]
    ELSE heuristic

\* ------------------------------------------------------------------------
\* orchestrator.py: the pipeline, cut at the awaits of the gateway
\* ------------------------------------------------------------------------
\* A request runs on the event loop from one await of the remote service to
\* the next. `l` holds the local variables of one run_adaptation_pipeline
\* call; l.pc names the stage whose gateway call it is suspended in.
\* l.prompted is the dimension values written into analyze's prompt; l.seen
\* lists the dimension values of the profile as analyze returned it, as each
\* later stage read them, and as the returned bundle holds them, in order;
\* l.outcome is what the gateway call of each stage ended in;
\* l.store_before is what the store held when the request arrived (kept for
\* the properties, read by no action).

Unset == <<>>

Stages == {"analyze", "adapt", "generate", "audit", "predict"}

IdleRun ==
    [pc |-> "idle", req |-> Unset, variant_id |-> "", overrides |-> EmptyDict,
     base_prior |-> Unset, cultural_profile |-> Unset,
     applicable_rules |-> <<>>, ux_adaptations |-> <<>>,
     copy_variants |-> <<>>, partial_variant |-> Unset,
     audit_result |-> <<>>, heuristic |-> Unset, variant_spec |-> Unset,
     prompted |-> EmptyDict, seen |-> <<>>,
     outcome |-> [s \in Stages |-> "none"],
     store_before |-> EmptyDict]

\* rule_based_audit's dict as a result object
AuditObj(a) ==
    <<[k |-> "audit_score", v |-> PyInt(a.audit_score)],
      [k |-> "summary", v |-> PyStr(a.summary)],
      [k |-> "risk_flags", v |-> PyList(a.risk_flags)],
      [k |-> "recommended_changes", v |-> PyList(a.recommended_changes)],
      [k |-> "positive_notes", v |-> PyList(a.positive_notes)],
      [k |-> "rationale", v |-> PyStr(a.rationale)]>>

\* base_spec as adapt uses it: `if not base_spec: base_spec = default`
AdaptBaseSpec(req) ==
    LET base == get_product_baseline(req.product_category)
    IN  IF base.found THEN base.val ELSE default_base_spec

\* (base_spec or {}).get("baseline_copy", {})
BaseCopy(req) ==
    LET base == get_product_baseline(req.product_category)
    IN  IF base.found THEN Get(base.val, "baseline_copy", EmptyDict) ELSE EmptyDict

\* What the gateway call of the stage ended in
OutcomeOf(client, event) == IF ~client THEN "unconfigured" ELSE event.kind

\* analyze has returned cultural_profile; adapt runs up to its gateway call.
AfterAnalyze(priors, l, profile) ==
    LET dimensions == Deref(priors, profile.dimensions)
        rules == get_applicable_rules(MappingRules, dimensions)
    IN  IF rules.raised
        THEN [l EXCEPT !.pc = "raised", !.cultural_profile = profile,
                       !.seen = @ \o <<dimensions>>]
        ELSE [l EXCEPT !.pc = "adapt", !.cultural_profile = profile,
                       !.applicable_rules = rules.val,
                       !.seen = @ \o <<dimensions, dimensions>>]

\* run_adaptation_pipeline from its call to the first await: the identifier,
\* the overrides, and analyze up to its gateway call (or, without a prior,
\* to its return). [priors, l]
PipelineBegin(priors, req, variant_id) ==
    LET overrides == IF req.override_dimensions.given
                     THEN req.override_dimensions.set ELSE EmptyDict
        base == get_cultural_prior_with_overrides(priors, req.country_code,
                                                  overrides)
        l0 == [IdleRun EXCEPT !.req = req, !.variant_id = variant_id,
                              !.overrides = overrides]
    IN  IF ~base.found
        THEN [priors |-> base.priors,
              l |-> AfterAnalyze(base.priors, l0,
                                 default_profile(req.country_code))]
        ELSE [priors |-> base.priors,
              l |-> [l0 EXCEPT !.pc = "analyze", !.base_prior = base.val,
                               !.prompted = Deref(base.priors, base.val.dimensions)]]

\* The gateway call of analyze has returned `result`.
ResumeAnalyze(priors, l, result) ==
    AfterAnalyze(priors, l,
        analyze_profile(l.req.country_code, l.req.product_category,
                        l.base_prior, result))

\* The gateway call of adapt has returned `result`; generate runs up to its
\* own gateway call.
ResumeAdapt(priors, l, result) ==
    LET dimensions == Deref(priors, l.cultural_profile.dimensions)
        ux == IF IsFallback(result)
              THEN rule_based_adaptation(dimensions, l.applicable_rules,
                                         AdaptBaseSpec(l.req), l.req.price_band)
              ELSE result
    IN  [l EXCEPT !.pc = "generate", !.ux_adaptations = ux,
                  !.seen = @ \o (IF IsFallback(result) THEN <<dimensions>> ELSE <<>>)
                             \o <<dimensions>>]

\* The partial bundle assembled from the copy the run held before generate
\* returned
AfterGenerateStaleCopy(l, copy_variants) ==
    [l EXCEPT !.pc = "audit", !.copy_variants = copy_variants,
              !.partial_variant =
                 [variant_id |-> l.variant_id,
                  region |-> l.req.country_code,
                  theme_emphasis |-> JGet(l.ux_adaptations, "theme_emphasis",
                                          <<L("balanced")>>),
                  flow |-> JGet(l.ux_adaptations, "flow", <<>>),
                  modules |-> JGet(l.ux_adaptations, "modules", <<>>),
                  copy |-> l.copy_variants,
                  cultural_profile |-> l.cultural_profile]]

\* generate has returned copy_variants; the partial bundle is assembled and
\* audit runs up to its gateway call.
AfterGenerate(l, copy_variants) ==
    [l EXCEPT !.pc = "audit", !.copy_variants = copy_variants,
              !.partial_variant =
                 [variant_id |-> l.variant_id,
                  region |-> l.req.country_code,
                  theme_emphasis |-> JGet(l.ux_adaptations, "theme_emphasis",
                                          <<L("balanced")>>),
                  flow |-> JGet(l.ux_adaptations, "flow", <<>>),
                  modules |-> JGet(l.ux_adaptations, "modules", <<>>),
                  copy |-> copy_variants,
                  cultural_profile |-> l.cultural_profile]]

\* The gateway call of generate has returned `result`.
ResumeGenerate(priors, l, result) ==
    LET dimensions == Deref(priors, l.cultural_profile.dimensions)
    IN  AfterGenerate(
            [l EXCEPT !.seen = @ \o (IF IsFallback(result) THEN <<dimensions>>
                                     ELSE <<>>)
                                 \o <<dimensions>>],
            IF IsFallback(result)
            THEN rule_based_copy(dimensions, BaseCopy(l.req))
            ELSE result)

\* compliance_auditor.audit from the return of its gateway call
audit_result_of(variant, strict_mode, result) ==
    IF IsFallback(result) THEN AuditObj(rule_based_audit(variant, strict_mode))
    ELSE result

\* audit has returned audit_result; predict runs up to its gateway call: the
\* heuristic is computed before it.
AfterAudit(priors, l, audit_result) ==
    [l EXCEPT !.pc = "predict", !.audit_result = audit_result,
              !.heuristic = calculate_heuristic_lift(l.partial_variant,
                                                     audit_result),
              !.seen = @ \o <<Deref(priors, l.cultural_profile.dimensions)>>]

\* The gateway call of audit has returned `result`.
ResumeAudit(priors, l, result) ==
    AfterAudit(priors, l, audit_result_of(l.partial_variant, FALSE, result))

\* The gateway call of predict has returned `result`; the bundle is
\* assembled and returned. created_at is the wall clock's reading.
ResumePredict(priors, l, result) ==
    LET lift_prediction == predict_result(l.heuristic, result)
    IN  [l EXCEPT !.pc = "returned",
                  !.seen = @ \o <<Deref(priors, l.cultural_profile.dimensions)>>,
                  !.variant_spec =
                     [variant_id |-> l.variant_id,
                      region |-> l.req.country_code,
                      theme_emphasis |-> JGet(l.ux_adaptations, "theme_emphasis",
                                              <<L("balanced")>>),
                      flow |-> JGet(l.ux_adaptations, "flow", <<>>),
                      modules |-> JGet(l.ux_adaptations, "modules", <<>>),
                      copy |-> l.copy_variants,
                      risk_flags |-> JGet(l.audit_result, "risk_flags", <<>>),
                      audit_score |-> JGet(l.audit_result, "audit_score", 0),
                      predicted_lift |-> lift_prediction,
                      rationale |-> JGet(l.ux_adaptations, "rationale", <<L("")>>),
                      cultural_profile |-> l.cultural_profile,
                      created_at |-> "now"]]

\* The run suspended in the gateway call of stage l.pc takes the call's
\* return [raised, val]: an exception leaves the pipeline.
Resume(priors, l, returned) ==
    IF returned.raised THEN [l EXCEPT !.pc = "raised"]
    ELSE LET result == returned.val
         IN  CASE l.pc = "analyze" -> ResumeAnalyze(priors, l, result)
               [] l.pc = "adapt" -> ResumeAdapt(priors, l, result)
               [] l.pc = "generate" -> ResumeGenerate(priors, l, result)
               [] l.pc = "audit" -> ResumeAudit(priors, l, result)
               [] l.pc = "predict" -> ResumePredict(priors, l, result)

\* Without a client generate_structured returns at once, and the run goes on
\* to its end without leaving the event loop.
RECURSIVE RunOn(_, _)
RunOn(priors, l) ==
    IF l.pc \in Stages
    THEN RunOn(priors,
               Resume(priors, [l EXCEPT !.outcome[l.pc] = "unconfigured"],
                      generate_structured(FALSE, ServiceEmpty)))
    ELSE l

\* ------------------------------------------------------------------------
\* main.py: the request handlers
\* ------------------------------------------------------------------------

MaxRuns == 2

RunIds == 1..MaxRuns

\* uuid4 draws the identifier at random: it is new, or one drawn before.
VariantIds == <<"var_000000000001", "var_000000000002", "var_000000000003",
               "var_000000000004">>

DrawnIds == {run[r].variant_id : r \in {q \in RunIds : run[q].pc # "idle"}}

IdChoices ==
    DrawnIds \cup (IF Cardinality(DrawnIds) < Len(VariantIds)
                   THEN {VariantIds[Cardinality(DrawnIds) + 1]} ELSE {})

IdleAudit ==
    [pc |-> "idle", variant_id |-> "", strict_mode |-> FALSE,
     variant |-> Unset, status |-> 0, audit |-> <<>>]

\* The bundle as a response carries it: the dimension values are those the
\* profile's dimensions dict holds when the response is written.
Materialize(priors, bundle) ==
    [bundle EXCEPT !.cultural_profile.dimensions = Deref(priors, @)]

\* adapt_storefront after run_adaptation_pipeline has gone as far as l: the
\* bundle is stored when the pipeline returned; an exception becomes a 500
\* response and nothing is stored.
Proceed(r, priors, l) ==
    /\ cultural_priors' = priors
    /\ IF l.pc = "returned" THEN
           /\ run' = [run EXCEPT ![r] = [l EXCEPT !.pc = "done"]]
           /\ variant_store' =
                 [id \in DOMAIN variant_store \cup {l.variant_id} |->
                     IF id = l.variant_id THEN l.variant_spec
                     ELSE variant_store[id]]
           /\ stored_as' =
                 [id \in DOMAIN variant_store \cup {l.variant_id} |->
                     IF id = l.variant_id THEN Materialize(priors, l.variant_spec)
                     ELSE stored_as[id]]
       ELSE
           /\ run' = [run EXCEPT ![r] =
                         IF l.pc = "raised" THEN [l EXCEPT !.pc = "failed"] ELSE l]
           /\ UNCHANGED <<variant_store, stored_as>>

\* What get(id) gives for every stored identifier
StoreContent(priors, store) ==
    [id \in DOMAIN store |-> Materialize(priors, store[id])]

\* The run, with the record of what the store held when its request arrived
WithStoreBefore(l, content) == [l EXCEPT !.store_before = content]

\* POST /api/adapt arrives: adapt_storefront runs to the first await of the
\* remote service, or to its end. Requests take the slots in order.
AdaptStart(r, req, variant_id) ==
    /\ run[r].pc = "idle"
    /\ IF r = 1 THEN TRUE ELSE run[r - 1].pc # "idle"
    /\ LET b == PipelineBegin(cultural_priors, req, variant_id)
       IN  Proceed(r, b.priors,
                   WithStoreBefore(IF configured THEN b.l ELSE RunOn(b.priors, b.l),
                                   StoreContent(cultural_priors, variant_store)))
    /\ UNCHANGED <<configured, reaudit>>
    /\ UNCHANGED <<mr_vars, au_vars, fn_vars>>

\* The remote service answers the gateway call request r is suspended in.
AdaptResume(r, event) ==
    /\ configured
    /\ run[r].pc \in Stages
    /\ Proceed(r, cultural_priors,
               Resume(cultural_priors,
                      [run[r] EXCEPT !.outcome[run[r].pc] = OutcomeOf(configured, event)],
                      generate_structured(configured, event)))
    /\ UNCHANGED <<configured, reaudit>>
    /\ UNCHANGED <<mr_vars, au_vars, fn_vars>>

\* POST /api/audit arrives: audit_variant answers 404 for an unknown
\* identifier; otherwise run_audit runs to the await of the remote service,
\* or without a client to its end.
AuditStart(variant_id, strict_mode) ==
    /\ reaudit.pc = "idle"
    /\ reaudit' =
          IF variant_id \notin DOMAIN variant_store
          THEN [IdleAudit EXCEPT !.pc = "done", !.variant_id = variant_id,
                                 !.strict_mode = strict_mode, !.status = 404]
          ELSE IF configured
          THEN [IdleAudit EXCEPT !.pc = "audit", !.variant_id = variant_id,
                                 !.strict_mode = strict_mode,
                                 !.variant = variant_store[variant_id]]
          ELSE [IdleAudit EXCEPT !.pc = "done", !.variant_id = variant_id,
                                 !.strict_mode = strict_mode,
                                 !.variant = variant_store[variant_id],
                                 !.status = 200,
                                 !.audit = audit_result_of(
                                     variant_store[variant_id], strict_mode,
                                     generate_structured(FALSE, ServiceEmpty).val)]
    /\ UNCHANGED <<configured, cultural_priors, run, variant_store, stored_as>>
    /\ UNCHANGED <<mr_vars, au_vars, fn_vars>>

\* The remote service answers the gateway call of the audit request.
AuditResume(event) ==
    /\ configured
    /\ reaudit.pc = "audit"
    /\ LET returned == generate_structured(configured, event)
       IN  reaudit' =
              IF returned.raised
              THEN [reaudit EXCEPT !.pc = "done", !.status = 500]
              ELSE [reaudit EXCEPT !.pc = "done", !.status = 200,
                                   !.audit = audit_result_of(reaudit.variant,
                                                 reaudit.strict_mode, returned.val)]
    /\ UNCHANGED <<configured, cultural_priors, run, variant_store, stored_as>>
    /\ UNCHANGED <<mr_vars, au_vars, fn_vars>>

\* ------------------------------------------------------------------------
\* The remote service's answers and the requests
\* ------------------------------------------------------------------------

ConnectionError == ServiceRaises(<<L("Connection error.")>>)
NotJson == ServiceText(<<L("Expecting value: line 1 column 1 (char 0)")>>)

AnalyzeAnswer(dimensions) ==
    <<[k |-> "dimensions", v |-> PyDict(dimensions)],
      [k |-> "evidence",
       v |-> PyList(<<[source |-> "Category research",
                       description |-> "Adjusted for the product category"]>>)],
      [k |-> "notes", v |-> PyStr(<<L("Values validated for the category.")>>)],
      [k |-> "rationale", v |-> PyStr(<<L("Dimensions reviewed against category context.")>>)],
      [k |-> "dimension_rationales", v |-> PyDict(EmptyDict)]>>

\* What the service may answer to analyze's prompt, which carried
\* `prompted`: the same values, one value adjusted for the category, one
\* dimension left out, one value off the scale, one value that is a string
\* ("high"), or no dimensions at all.
AnalyzeAnswers(prompted) ==
    {AnalyzeAnswer(prompted),
     AnalyzeAnswer([prompted EXCEPT !["collectivism"] = IntNum(60)]),
     AnalyzeAnswer([k \in DOMAIN prompted \ {"friction_tolerance"} |-> prompted[k]]),
     AnalyzeAnswer([prompted EXCEPT !["trust_need"] = IntNum(150)]),
     AnalyzeAnswer([prompted EXCEPT !["trust_need"] = TextValue]),
     <<[k |-> "rationale", v |-> PyStr(<<L("Dimensions reviewed against category context.")>>)]>>}

UxAnswer ==
    <<[k |-> "theme_emphasis", v |-> PyStr(<<L("trust-first")>>)],
      [k |-> "rationale", v |-> PyStr(<<L("Trust need and uncertainty avoidance drive a reassurance-led layout.")>>)],
      [k |-> "flow", v |-> PyList(
         <<[step_id |-> "cart", name |-> "Cart", description |-> "Shopping cart",
            adaptations |->
               <<[change |-> "Guarantee summary shown in cart",
                  dimension_driver |-> <<L("trust_need="), N(88)>>,
                  rationale |-> <<L("High trust need calls for reassurance before checkout")>>]>>,
            required_fields |-> <<>>, validations |-> <<>>],
           [step_id |-> "express_checkout", name |-> "Express Checkout",
            description |-> "Single-step checkout",
            adaptations |-> <<>>,
            required_fields |-> <<"full_name", "address", "payment_method">>,
            validations |-> <<"address_format">>]>>)],
      [k |-> "modules", v |-> PyDict(
         <<[k |-> "reviews", v |-> PyDict(
              [enabled |-> TRUE, placement |-> "above_fold", style |-> "community",
               adaptation_rationale |-> <<L("Collectivism="), N(78), L(": "),
                                          L("Strong social proof emphasis")>>])],
           [k |-> "guarantees", v |-> PyDict(
              [enabled |-> TRUE, types |-> <<"money-back guarantee">>,
               prominence |-> "high",
               adaptation_rationale |-> <<L("Guarantees reassure first-time buyers")>>])]>>)]>>

CopyAnswer ==
    <<[k |-> "cta_primary", v |-> CopyItem(<<L("Add to Cart")>>,
         <<L("Baseline CTA maintained")>>)],
      [k |-> "value_proposition", v |-> CopyItem(
         <<L("Trusted by experts. Backed by our guarantee. Quality you can count on.")>>,
         <<L("Trust need="), N(88), L(": Security reassurance.")>>)],
      [k |-> "microcopy", v |-> PyList(
         <<MicrocopyItem("checkout_button", <<L("You will never regret it")>>,
                         <<L("Trust need="), N(88), L(": Security reassurance.")>>)>>)]>>

AuditAnswer ==
    <<[k |-> "audit_score", v |-> PyInt(85)],
      [k |-> "summary", v |-> PyStr(<<L("Minor concerns, easily addressed.")>>)],
      [k |-> "risk_flags", v |-> PyList(
         <<[flag_id |-> Render(<<L("FLAG_")>>) \o Pad3(1),
            severity |-> "low",
            description |-> <<L("Guarantee rationale is generic")>>,
            recommendation |-> <<L("Ensure rationale explicitly references dimension scores and mapping rules.")>>,
            affected_element |-> <<L("modules."), L("guarantees")>>]>>)],
      [k |-> "recommended_changes", v |-> PyList(<<>>)],
      [k |-> "positive_notes", v |-> PyList(<<>>)],
      [k |-> "rationale", v |-> PyStr(<<L("Minor concerns, easily addressed.")>>)]>>

PredictAnswers ==
    {<<[k |-> "confidence_level", v |-> PyStr(<<L("medium")>>)],
       [k |-> "method", v |-> PyStr(<<L("Heuristic validated against comparable launches.")>>)],
       [k |-> "rationale", v |-> PyStr(<<L("Heuristic validated against comparable launches.")>>)]>>,
     <<[k |-> "rationale", v |-> PyStr(<<L("Heuristic validated against comparable launches.")>>)]>>}

\* The answers the service may give to the gateway call of stage `stage`
AnswersTo(stage, prompted) ==
    CASE stage = "analyze" -> AnalyzeAnswers(prompted)
      [] stage = "adapt" -> {UxAnswer}
      [] stage = "generate" -> {CopyAnswer}
      [] stage = "audit" -> {AuditAnswer}
      [] stage = "predict" -> PredictAnswers

\* Everything the remote service may do with a call of stage `stage`
ServiceEvents(stage, prompted) ==
    IF stage \notin Stages THEN {}
    ELSE {ConnectionError, ServiceEmpty, NotJson}
         \cup {ServiceJson(a) : a \in AnswersTo(stage, prompted)}

\* The arguments run_adaptation_pipeline is called with. AdaptRequest lets
\* JP, GT and DE through; "XX" and "unlisted" stand for a region without a
\* prior and a category without a baseline, which the pipeline's own
\* branches (analyze's `if not base_prior`, adapt's `base_spec or ...`)
\* provide for when the orchestrator is called with them.
AdaptCountries == {"JP", "GT", "DE", "XX"}
AdaptCategories == {"electronics", "unlisted"}

\* OverrideDimensions.model_dump() without its None entries: the fields
\* set, each a float in [0, 100]
OverrideSets ==
    {[k \in {"collectivism"} |-> FloatNum(30)],
     [k \in {"trust_need", "friction_tolerance"} |->
         IF k = "trust_need" THEN FloatNum(60) ELSE FloatNum(35)]}

OverrideChoices ==
    {[given |-> FALSE, set |-> EmptyDict]}
    \cup {[given |-> TRUE, set |-> o] : o \in OverrideSets}

AdaptRequests ==
    [country_code : AdaptCountries, product_category : AdaptCategories,
     price_band : {"mid"}, audience : {"general_consumer"},
     override_dimensions : OverrideChoices]

\* ------------------------------------------------------------------------
\* One request, every outcome of every gateway call
\* ------------------------------------------------------------------------

InitApp ==
    /\ MrIdle
    /\ FnIdle
    /\ AuIdle
    /\ configured \in BOOLEAN
    /\ cultural_priors = LoadedPriors
    /\ run = [r \in RunIds |-> IdleRun]
    /\ variant_store = EmptyDict
    /\ stored_as = EmptyDict
    /\ reaudit = IdleAudit

NextRun ==
    \/ \E req \in AdaptRequests, id \in IdChoices : AdaptStart(1, req, id)
    \/ \E event \in ServiceEvents(run[1].pc, run[1].prompted) :
          AdaptResume(1, event)

SpecRun == InitApp /\ [][NextRun]_vars

\* ------------------------------------------------------------------------
\* Several requests, interleaved at the gateway awaits, and an audit request
\* ------------------------------------------------------------------------

SharedOverrideChoices ==
    {[given |-> FALSE, set |-> EmptyDict],
     [given |-> TRUE, set |-> [k \in {"collectivism"} |-> FloatNum(30)]],
     [given |-> TRUE, set |-> [k \in {"collectivism"} |-> FloatNum(90)]]}

SharedRequests ==
    [country_code : {"JP"}, product_category : {"electronics"},
     price_band : {"mid"}, audience : {"general_consumer"},
     override_dimensions : SharedOverrideChoices]
    \cup
    [country_code : {"DE"}, product_category : {"electronics"},
     price_band : {"mid"}, audience : {"general_consumer"},
     override_dimensions : {[given |-> FALSE, set |-> EmptyDict]}]

\* What the remote service does in these runs: it fails, or it answers
\* analyze (well typed, or with a string for one dimension) and adapt.
SharedEvents(stage, prompted) ==
    IF stage \notin Stages THEN {}
    ELSE {ConnectionError}
         \cup (IF stage = "analyze"
               THEN {ServiceJson(AnalyzeAnswer(prompted)),
                     ServiceJson(AnalyzeAnswer(
                         [prompted EXCEPT !["collectivism"] = IntNum(60)])),
                     ServiceJson(AnalyzeAnswer(
                         [prompted EXCEPT !["trust_need"] = TextValue]))}
               ELSE IF stage = "adapt" THEN {ServiceJson(UxAnswer)}
               ELSE {})

AuditRequestIds == DOMAIN variant_store \cup {"var_00000000ffff"}

Next ==
    \/ \E r \in RunIds, req \in SharedRequests, id \in IdChoices :
          AdaptStart(r, req, id)
    \/ \E r \in RunIds :
          \E event \in SharedEvents(run[r].pc, run[r].prompted) :
             AdaptResume(r, event)
    \/ \E id \in AuditRequestIds, strict_mode \in BOOLEAN :
          AuditStart(id, strict_mode)
    \/ \E event \in {ConnectionError, ServiceJson(AuditAnswer)} :
          AuditResume(event)

Spec == InitApp /\ [][Next]_vars

\* ------------------------------------------------------------------------
\* Matcher harness: tables and profiles drawn from bounded sets
\* ------------------------------------------------------------------------

MaxRules == 2
MaxMatchCalls == 2

MrDims == {"collectivism", "trust_need"}
MrValues == {9, 10, 11}
MrThresholds == {10}
MrComparators == {<<">", "=">>, <<"<", "=">>, <<">">>, <<"<">>, <<"=", "=">>}
MrRuleIds == <<"R1", "R2", "R3", "R4">>

\* A rule as the data file holds it: the condition is comparator and threshold
\* written one after the other, e.g. ">=70".
WrittenRule(id, dim, cmp, thr) ==
    [rule_id |-> id, dimension |-> dim, condition |-> cmp \o NatToDigits(thr)]

MrWrittenSpecs == [dimension : MrDims \cup {"friction_tolerance"},
                   cmp : MrComparators, thr : MrThresholds]

MrNumbers == {IntNum(v) : v \in MrValues} \cup {FloatNum(10)}
MrProfiles == UNION {[D -> MrNumbers] : D \in SUBSET MrDims}

\* The application as constructed, serving no request
AppIdle ==
    /\ configured = FALSE
    /\ cultural_priors = LoadedPriors
    /\ run = [r \in RunIds |-> IdleRun]
    /\ variant_store = EmptyDict
    /\ stored_as = EmptyDict
    /\ reaudit = IdleAudit

InitRules ==
    /\ AuIdle
    /\ FnIdle
    /\ AppIdle
    /\ \E n \in 1..MaxRules :
         /\ mr_written \in [1..n -> MrWrittenSpecs]
         /\ mr_rules = [i \in 1..n |->
                WrittenRule(MrRuleIds[i], mr_written[i].dimension,
                            mr_written[i].cmp, mr_written[i].thr)]
    /\ mr_dims \in MrProfiles
    /\ mr_out = <<>>

\* One call of get_applicable_rules(dimensions). The code assigns neither to
\* the table nor to the profile.
MatchCall ==
    /\ Len(mr_out) < MaxMatchCalls
    /\ mr_out' = Append(mr_out, get_applicable_rules(mr_rules, mr_dims))
    /\ UNCHANGED <<mr_rules, mr_written, mr_dims>>
    /\ UNCHANGED <<au_vars, app_vars, fn_vars>>

NextRules == MatchCall

SpecRules == InitRules /\ [][NextRules]_vars

\* ------------------------------------------------------------------------
\* Audit harness: bundles drawn from bounded sets
\* ------------------------------------------------------------------------

MaxAuditCalls == 2

AuCopyKeys == {"cta_primary", "cta_secondary", "value_proposition",
               "urgency_text", "social_proof_text"}

AuTexts == {<<L("Add to Cart")>>,
            <<L("They always buy here")>>,
            <<L("Whenever you like")>>,
            <<L("Loved by People In "), N(3), L(" regions")>>}

AuRationales == {<<L("Baseline CTA maintained")>>,
                 <<L("Typical of the region")>>}

AuMicrocopy ==
    {<<>>,
     <<[location |-> "shipping_note",
        text |-> <<L("Free standard shipping")>>,
        rationale |-> <<L("Context level="), N(50), L(": Concise shipping summary.")>>]>>,
     <<[location |-> "checkout_button",
        text |-> <<L("You will never regret it")>>,
        rationale |-> <<L("Trust need="), N(80), L(": Security reassurance.")>>]>>}

AuCopies ==
    {<<[k |-> key, v |-> PyDict([text |-> t, rationale |-> r])],
       [k |-> "microcopy", v |-> PyList(mc)]>> :
        <<key, t, r, mc>> \in AuCopyKeys \X AuTexts \X AuRationales \X AuMicrocopy}

AuModuleDicts ==
    {[enabled |-> TRUE, placement |-> "below_fold"],
     [enabled |-> TRUE, adaptation_rationale |-> <<L("")>>],
     [enabled |-> TRUE, adaptation_rationale |->
         <<L("Collectivism="), N(78), L(": "), L("Standard review display")>>],
     [enabled |-> TRUE, adaptation_rationale |->
         <<L("UA="), N(82), L(": "), L("Standard returns")>>],
     [enabled |-> TRUE, adaptation_rationale |-> <<L("Looks nicer")>>]}

AuSecondModules ==
    {<<>>,
     <<[k |-> "guarantees",
        v |-> PyDict([enabled |-> TRUE,
                      adaptation_rationale |-> <<L("Customers expect it")>>])]>>}

AuModules ==
    {<<[k |-> "reviews", v |-> PyDict(m)]>> \o second :
        <<m, second>> \in AuModuleDicts \X AuSecondModules}

AuStep(adaptations) ==
    [step_id |-> "express_checkout", name |-> "Express Checkout",
     description |-> "Combined shipping and payment in a single streamlined step",
     adaptations |-> adaptations]

AuFlows ==
    {<<>>,
     <<[step_id |-> "cart", name |-> "Cart", description |-> "Shopping cart"]>>,
     <<AuStep(<<[change |-> "Combined shipping and payment steps",
                 dimension_driver |-> <<L("friction_tolerance="), N(35)>>,
                 rationale |-> <<L("Low friction tolerance requires streamlined flow to prevent cart abandonment")>>]>>)>>,
     <<AuStep(<<[change |-> "Combined shipping and payment steps",
                 rationale |-> <<L("Shorter is better")>>]>>)>>,
     <<AuStep(<<[change |-> "Combined shipping and payment steps",
                 dimension_driver |-> <<L("")>>,
                 rationale |-> <<L("Shorter is better")>>]>>)>>,
     <<[step_id |-> "cart", name |-> "Cart", description |-> "Shopping cart",
        adaptations |-> <<[change |-> "Cart summary shortened",
                           rationale |-> <<L("Shorter is better")>>]>>],
       AuStep(<<[change |-> "Combined shipping and payment steps",
                 rationale |-> <<L("Shorter is better")>>],
                [change |-> "Address form shortened",
                 dimension_driver |-> <<L("friction_tolerance="), N(35)>>,
                 rationale |-> <<L("Fewer fields")>>],
                [change |-> "Saved payment method preselected",
                 dimension_driver |-> <<L("")>>,
                 rationale |-> <<L("Fewer clicks")>>]>>)>>}

InitAudit ==
    /\ MrIdle
    /\ FnIdle
    /\ AppIdle
    /\ \E copy \in AuCopies, modules \in AuModules, flow \in AuFlows :
         au_variant = [variant_id |-> "var_0", region |-> "JP",
                       theme_emphasis |-> "balanced", flow |-> flow,
                       modules |-> modules, copy |-> copy,
                       cultural_profile |-> EmptyDict]
    /\ au_strict \in BOOLEAN
    /\ au_out = <<>>

\* One call of _rule_based_audit(variant, strict_mode)
AuditCall ==
    /\ Len(au_out) < MaxAuditCalls
    /\ au_out' = Append(au_out, rule_based_audit(au_variant, au_strict))
    /\ UNCHANGED <<au_variant, au_strict>>
    /\ UNCHANGED <<mr_vars, app_vars, fn_vars>>

\* run_adaptation_pipeline after its audit: the final bundle is assembled
\* from the audited one, the audit's result and the prediction. The
\* pipeline's audit is the non-strict one.
AssembleBundle ==
    /\ ~au_strict
    /\ Len(au_out) = 1
    /\ "audit_score" \notin DOMAIN au_variant
    /\ au_variant' =
          [variant_id |-> au_variant.variant_id,
           region |-> au_variant.region,
           theme_emphasis |-> au_variant.theme_emphasis,
           flow |-> au_variant.flow,
           modules |-> au_variant.modules,
           copy |-> au_variant.copy,
           risk_flags |-> JGet(AuditObj(au_out[1]), "risk_flags", <<>>),
           audit_score |-> JGet(AuditObj(au_out[1]), "audit_score", 0),
           predicted_lift |->
               predict_result(
                   calculate_heuristic_lift(au_variant, AuditObj(au_out[1])),
                   fallback_response),
           rationale |-> <<L("")>>,
           cultural_profile |-> au_variant.cultural_profile,
           created_at |-> "now"]
    /\ UNCHANGED <<au_strict, au_out>>
    /\ UNCHANGED <<mr_vars, app_vars, fn_vars>>

NextAudit == AuditCall \/ AssembleBundle

SpecAudit == InitAudit /\ [][NextAudit]_vars

\* ------------------------------------------------------------------------
\* Audit harness: a bundle that gains findings between audits
\* ------------------------------------------------------------------------

MaxGrowCalls == 4

GrCopies ==
    {c \in AuCopies : /\ c[1].k = "cta_primary"
                      /\ c[1].v.d.rationale = <<L("Baseline CTA maintained")>>
                      /\ c[2].v.items = <<>>}

GrModules ==
    {m \in AuModules :
        m[1].v.d = [enabled |-> TRUE, adaptation_rationale |->
                       <<L("Collectivism="), N(78), L(": "),
                         L("Standard review display")>>]}

GrFlows == {f \in AuFlows : \A i \in 1..Len(f) : "adaptations" \notin DOMAIN f[i]}

InitGrow ==
    /\ MrIdle
    /\ FnIdle
    /\ AppIdle
    /\ \E copy \in GrCopies, modules \in GrModules, flow \in GrFlows :
         au_variant = [variant_id |-> "var_0", region |-> "JP",
                       theme_emphasis |-> "balanced", flow |-> flow,
                       modules |-> modules, copy |-> copy,
                       cultural_profile |-> EmptyDict]
    /\ au_strict \in BOOLEAN
    /\ au_out = <<>>

\* The audited bundle has become `variant`; _rule_based_audit is called on it.
GrowCall(variant) ==
    /\ au_out # <<>>
    /\ Len(au_out) < MaxGrowCalls
    /\ au_variant' = variant
    /\ au_out' = Append(au_out, rule_based_audit(variant, au_strict))
    /\ UNCHANGED au_strict
    /\ UNCHANGED <<mr_vars, app_vars, fn_vars>>

\* Copy fields with essentializing language: one whose text has every
\* pattern, one whose rationale has one.
GrCopyFields ==
    {<<"cta_secondary",
       <<L("All people in and everyone in the region: they always return, they never regret, typical of buyers")>>,
       <<L("Baseline CTA maintained")>>>>,
     <<"urgency_text",
       <<L("Limited availability")>>,
       <<L("Typical of the region")>>>>}

\* A copy field with essentializing language is added to the bundle.
GrowCopy(key, text, rationale) ==
    /\ key \notin OKeys(au_variant.copy)
    /\ GrowCall([au_variant EXCEPT !.copy =
          <<[k |-> key, v |-> PyDict([text |-> text, rationale |-> rationale])]>>
          \o @])

\* An essentializing phrase is added to the text of the first copy field.
GrowPhrase ==
    LET text == au_variant.copy[1].v.d.text
    IN  /\ text[Len(text)] # L(" as they always do")
        /\ GrowCall([au_variant EXCEPT !.copy[1].v.d.text =
                        @ \o <<L(" as they always do")>>])

\* A microcopy entry with essentializing language is added.
GrowMicrocopy ==
    /\ Len(au_variant.copy[Len(au_variant.copy)].v.items) = 0
    /\ GrowCall([au_variant EXCEPT !.copy[Len(au_variant.copy)].v.items =
          <<[location |-> "checkout_button",
             text |-> <<L("You will never regret it")>>,
             rationale |-> <<L("Trust need="), N(80), L(": Security reassurance.")>>]>>])

\* Modules whose rationale names no dimension: one with a rationale, one
\* without any.
GrModuleItems ==
    {[k |-> "returns",
      v |-> PyDict([enabled |-> TRUE,
                    adaptation_rationale |-> <<L("Looks nicer")>>])],
     [k |-> "shipping_info",
      v |-> PyDict([enabled |-> TRUE, placement |-> "above_fold"])]}

\* A module without a dimension-linked rationale is added.
GrowModule(item) ==
    /\ item.k \notin OKeys(au_variant.modules)
    /\ GrowCall([au_variant EXCEPT !.modules = @ \o <<item>>])

\* A flow step with an adaptation without dimension_driver is added.
GrowStep ==
    /\ \A i \in 1..Len(au_variant.flow) : au_variant.flow[i].step_id # "payment"
    /\ GrowCall([au_variant EXCEPT !.flow = @ \o
          <<[step_id |-> "payment", name |-> "Payment",
             description |-> "Payment step",
             adaptations |-> <<[change |-> "Saved payment method preselected",
                                rationale |-> <<L("Fewer clicks")>>]>>]>>])

NextGrow ==
    \/ AuditCall
    \/ \E f \in GrCopyFields : GrowCopy(f[1], f[2], f[3])
    \/ GrowPhrase
    \/ GrowMicrocopy
    \/ \E item \in GrModuleItems : GrowModule(item)
    \/ GrowStep

SpecGrow == InitGrow /\ [][NextGrow]_vars

\* ------------------------------------------------------------------------
\* C8
\* ------------------------------------------------------------------------

\* What a rule written with comparator cmp and threshold thr asks of value v;
\* a comparator that is none of the four asks for nothing the matcher grants.
ComparatorHolds(cmp, v, thr) ==
    CASE cmp = <<">", "=">> -> v >= thr
      [] cmp = <<"<", "=">> -> v <= thr
      [] cmp = <<">">> -> v > thr
      [] cmp = <<"<">> -> v < thr
      [] OTHER -> FALSE

RECURSIVE MrExpectedFrom(_)
MrExpectedFrom(i) ==
    IF i > Len(mr_rules) THEN <<>>
    ELSE (IF /\ mr_written[i].dimension \in DOMAIN mr_dims
             /\ ComparatorHolds(mr_written[i].cmp,
                                mr_dims[mr_written[i].dimension].n,
                                mr_written[i].thr)
          THEN <<mr_rules[i]>> ELSE <<>>) \o MrExpectedFrom(i + 1)

\* C8: every call of get_applicable_rules returns, without raising, exactly
\* the rules of the table whose dimension is in the profile and whose
\* comparator/threshold test the profile's value satisfies, in table order
\* and without duplicates; a rule on an absent dimension is skipped; a second
\* call on the same inputs returns the identical sequence.
C8_MatcherExactOrdered ==
    \A k \in 1..Len(mr_out) :
        /\ mr_out[k].raised = FALSE
        /\ mr_out[k].val = MrExpectedFrom(1)
        /\ \A i, j \in 1..Len(mr_out[k].val) :
               i # j => mr_out[k].val[i].rule_id # mr_out[k].val[j].rule_id
        /\ mr_out[k] = mr_out[1]

\* Two calls were made on a two-rule table: the first rule is on a dimension
\* the profile lacks, the second is ">=" met at equality and was returned.
C8_Witness ==
    /\ Len(mr_out) = 2
    /\ Len(mr_rules) = 2
    /\ mr_written[1].dimension \notin DOMAIN mr_dims
    /\ mr_written[2].cmp = <<">", "=">>
    /\ mr_written[2].dimension \in DOMAIN mr_dims
    /\ mr_dims[mr_written[2].dimension].n = mr_written[2].thr
    /\ mr_out[2].val = <<mr_rules[2]>>

\* ------------------------------------------------------------------------
\* C9, C10
\* ------------------------------------------------------------------------

\* The rationale names one of the dimension tokens
ReferencesDimension(rationale) ==
    \E i \in 1..Len(dimension_tokens) :
        Contains(PyLower(Render(rationale)), Render(<<dimension_tokens[i]>>))

\* The module-level adaptations of the bundle whose rationale names no
\* dimension token: an empty or missing rationale names none.
UnlinkedModules(variant) ==
    LET modules == Get(variant, "modules", <<>>)
    IN  {i \in 1..Len(modules) :
            /\ modules[i].v.type = "dict"
            /\ ~ReferencesDimension(Get(modules[i].v.d, "adaptation_rationale", <<>>))}

StrictPenalty(strict_mode) == IF strict_mode THEN 10 ELSE 0

\* C9 (as claimed): in the fallback audit every module-level adaptation whose
\* rationale references no dimension token, an empty or missing rationale
\* included, has exactly one "low" flag on that module and costs 5 points.
C9_AsClaimed ==
    \A k \in 1..Len(au_out) :
        LET out == au_out[k]
            modules == Get(au_variant, "modules", <<>>)
            unlinked == UnlinkedModules(au_variant)
        IN  /\ \A i \in unlinked :
                 Cardinality({j \in 1..Len(out.risk_flags) :
                     /\ out.risk_flags[j].severity = "low"
                     /\ out.risk_flags[j].affected_element
                            = <<L("modules."), L(modules[i].k)>>}) = 1
            /\ out.audit_score =
                 Max(0, 100 - 10 * Len(CopyFlags(Get(au_variant, "copy", <<>>), au_strict))
                            - 5 * Cardinality(unlinked)
                            - 8 * Len(FlowFlags(Get(au_variant, "flow", <<>>)))
                            - StrictPenalty(au_strict))

\* The essentializing patterns found in the text or the rationale of a field
PatternsFound(field) ==
    {p \in 1..Len(essentializing_patterns) :
        \/ PatternIn(essentializing_patterns[p],
                     PyLower(Render(Get(field, "text", <<>>))))
        \/ PatternIn(essentializing_patterns[p],
                     PyLower(Render(Get(field, "rationale", <<>>))))}

\* The flags of the audit result on copy field `key` for pattern p
CopyFlagsOn(out, key, p) ==
    {j \in 1..Len(out.risk_flags) :
        /\ out.risk_flags[j].affected_element = <<L("copy."), L(key)>>
        /\ out.risk_flags[j].description[4] = essentializing_patterns[p]}

RECURSIVE SumOver(_, _)
SumOver(f, S) ==
    IF S = {} THEN 0
    ELSE LET x == CHOOSE y \in S : TRUE IN f[x] + SumOver(f, S \ {x})

\* The number of (field, pattern) finds over every copy field of the bundle,
\* each entry of a list-valued field (microcopy) counting as a field.
AllCopyFinds(variant) ==
    LET copy == Get(variant, "copy", <<>>)
        per == [i \in 1..Len(copy) |->
                  IF copy[i].v.type = "dict"
                  THEN Cardinality(PatternsFound(copy[i].v.d))
                  ELSE SumOver([e \in 1..Len(copy[i].v.items) |->
                                   Cardinality(PatternsFound(copy[i].v.items[e]))],
                               1..Len(copy[i].v.items))]
    IN  SumOver(per, 1..Len(copy))

\* C10 (as claimed): the fallback audit scans text and rationale of every copy
\* field, each microcopy entry included; each pattern found in a field gives
\* one flag on that field ("medium", "high" under strict_mode) and costs 10.
C10_AsClaimed ==
    \A k \in 1..Len(au_out) :
        LET out == au_out[k]
            copy == Get(au_variant, "copy", <<>>)
            sev == IF au_strict THEN "high" ELSE "medium"
        IN  /\ \A i \in 1..Len(copy) :
                 /\ copy[i].v.type = "dict" =>
                      \A p \in PatternsFound(copy[i].v.d) :
                          /\ Cardinality(CopyFlagsOn(out, copy[i].k, p)) = 1
                          /\ \A j \in CopyFlagsOn(out, copy[i].k, p) :
                                 out.risk_flags[j].severity = sev
                 /\ copy[i].v.type = "list" =>
                      \A e \in 1..Len(copy[i].v.items) :
                          \A p \in PatternsFound(copy[i].v.items[e]) :
                              \E j \in CopyFlagsOn(out, copy[i].k, p) :
                                  out.risk_flags[j].severity = sev
            /\ out.audit_score =
                 Max(0, 100 - 10 * AllCopyFinds(au_variant)
                            - 5 * Len(ModuleFlags(Get(au_variant, "modules", <<>>)))
                            - 8 * Len(FlowFlags(Get(au_variant, "flow", <<>>)))
                            - StrictPenalty(au_strict))


\* ------------------------------------------------------------------------
\* C1
\* ------------------------------------------------------------------------

FailureOutcomes == {"exception", "empty", "text"}

\* The dimension values the profile of run l holds now
ProfileDimensions(l) == Deref(cultural_priors, l.cultural_profile.dimensions)

\* C1 as stated: whenever the gateway call of the UX, copy or audit stage
\* ended in an exception, an empty response or a response that is not JSON,
\* the stage's output is the output of its rule-based fallback on the same
\* inputs.
C1_AsClaimed ==
    \A r \in RunIds :
        LET l == run[r]
        IN  /\ l.outcome["adapt"] \in FailureOutcomes =>
                  l.ux_adaptations =
                     rule_based_adaptation(ProfileDimensions(l), l.applicable_rules,
                                           AdaptBaseSpec(l.req), l.req.price_band)
            /\ l.outcome["generate"] \in FailureOutcomes =>
                  l.copy_variants = rule_based_copy(ProfileDimensions(l), BaseCopy(l.req))
            /\ l.outcome["audit"] \in FailureOutcomes =>
                  l.audit_result = AuditObj(rule_based_audit(l.partial_variant, FALSE))

\* ------------------------------------------------------------------------
\* C2
\* ------------------------------------------------------------------------

BundleKeys ==
    {"variant_id", "region", "theme_emphasis", "flow", "modules", "copy",
     "risk_flags", "audit_score", "predicted_lift", "rationale",
     "cultural_profile", "created_at"}

\* The stage whose gateway call returned a well-formed answer produced the
\* enriched output, whatever the other stages' calls ended in.
EnrichedWhereAnswered(l) ==
    /\ l.outcome["adapt"] = "json" => l.ux_adaptations = UxAnswer
    /\ l.outcome["generate"] = "json" => l.copy_variants = CopyAnswer
    /\ l.outcome["audit"] = "json" => l.audit_result = AuditAnswer
    /\ l.outcome["predict"] = "json" =>
          \E a \in PredictAnswers :
             l.variant_spec.predicted_lift = predict_result(l.heuristic, a)
    /\ l.outcome["analyze"] = "json" =>
          \E a \in AnalyzeAnswers(l.prompted) :
             l.cultural_profile =
                analyze_profile(l.req.country_code, l.req.product_category,
                                l.base_prior, a)

\* The answers run l has taken from the service gave numbers for the
\* dimensions
AnswersWellTyped(l) ==
    l.cultural_profile # Unset =>
        \A k \in DOMAIN ProfileDimensions(l) : IsNumber(ProfileDimensions(l)[k])

\* C2: a run never leaves the pipeline by an exception, whatever each
\* stage's gateway call ends in (a well-formed answer, whose dimension
\* values are numbers, no client, an exception, an empty response, a
\* response that is not JSON); a finished
\* run has returned and stored a bundle with every field; each stage whose
\* call was answered well has its enriched output, so a failure touches only
\* its own stage; and the bundle holds the outputs of the earlier stages as
\* they were produced: the UX stage's theme, flow, modules and rationale,
\* the copy, the audit's flags, and the profile with the dimension values it
\* had when analyze returned.
C2_RunAlwaysReturnsBundle ==
    LET l == run[1]
    IN  /\ AnswersWellTyped(l) => l.pc \notin {"raised", "failed"}
        /\ l.pc = "done" =>
              /\ l.variant_id \in DOMAIN variant_store
              /\ variant_store[l.variant_id] = l.variant_spec
              /\ DOMAIN l.variant_spec = BundleKeys
              /\ EnrichedWhereAnswered(l)
              /\ l.variant_spec.theme_emphasis =
                    JGet(l.ux_adaptations, "theme_emphasis", <<L("balanced")>>)
              /\ l.variant_spec.flow = JGet(l.ux_adaptations, "flow", <<>>)
              /\ l.variant_spec.modules = JGet(l.ux_adaptations, "modules", <<>>)
              /\ l.variant_spec.rationale = JGet(l.ux_adaptations, "rationale", <<L("")>>)
              /\ l.variant_spec.copy = l.copy_variants
              /\ l.variant_spec.risk_flags = JGet(l.audit_result, "risk_flags", <<>>)
              /\ l.variant_spec.cultural_profile = l.cultural_profile
              /\ Deref(cultural_priors, l.variant_spec.cultural_profile.dimensions)
                    = l.seen[1]

\* A run finished whose gateway calls ended in every kind of outcome: not
\* JSON, an exception, a well-formed answer, an empty response, an answer.
C2_Witness ==
    /\ run[1].pc = "done"
    /\ run[1].outcome = [analyze |-> "text", adapt |-> "exception",
                         generate |-> "json", audit |-> "empty",
                         predict |-> "json"]
    /\ run[1].variant_id \in DOMAIN variant_store

\* ------------------------------------------------------------------------
\* C3
\* ------------------------------------------------------------------------

\* C3 as stated: get_cultural_prior(region) returns the dimension values the
\* file was loaded with, after any sequence of runs.
C3_AsClaimed ==
    \A cc \in CountryCodes :
        Deref(cultural_priors,
              get_cultural_prior(cultural_priors, cc).val.dimensions)
            = LoadedPriors[cc].dimensions

\* ------------------------------------------------------------------------
\* C4
\* ------------------------------------------------------------------------

\* The value the run's own inputs give dimension k: its override, or the
\* value the file was loaded with.
OwnValue(l, k) ==
    IF k \in DOMAIN l.overrides THEN l.overrides[k].n
    ELSE LoadedPriors[l.req.country_code].dimensions[k].n

\* C4 as stated, for runs with a client (the only runs that suspend): the
\* profile of a finished run's bundle holds the run's own override values
\* and the prior's values elsewhere, and every stage of a run read the
\* dimension values the profile had when analyze returned it. The runs whose
\* analyze took the service's dimensions are left aside.
C4_AsClaimed ==
    configured =>
        \A r \in RunIds :
            LET l == run[r]
            IN  /\ \A i \in 1..Len(l.seen) : l.seen[i] = l.seen[1]
                /\ (l.pc = "done" /\ l.outcome["analyze"] # "json") =>
                      \A k \in DimensionNames :
                          l.seen[Len(l.seen)][k].n = OwnValue(l, k)

\* ------------------------------------------------------------------------
\* C5
\* ------------------------------------------------------------------------

\* C5 as stated: the bundle get(id) returns is, field for field, the bundle
\* as it was when stored.
C5_AsClaimed ==
    \A id \in DOMAIN variant_store :
        Materialize(cultural_priors, variant_store[id]) = stored_as[id]

\* ------------------------------------------------------------------------
\* C6, C7
\* ------------------------------------------------------------------------

\* The Resolver has returned in run l
Resolved(l) == l.seen # <<>>

\* C6 as stated, for the regions that have a prior: the profile analyze
\* returns has the override's value for each overridden dimension and the
\* prior's value for every other one, whatever the gateway call ended in.
C6_AsClaimed ==
    LET l == run[1]
    IN  (Resolved(l) /\ l.req.country_code \in CountryCodes) =>
            \A k \in DimensionNames :
                /\ k \in DOMAIN l.seen[1]
                /\ l.seen[1][k].n = OwnValue(l, k)

\* C7 as stated: the profile analyze returns has exactly the seven
\* dimensions, each in [0, 100].
C7_AsClaimed ==
    LET l == run[1]
    IN  Resolved(l) =>
            /\ DOMAIN l.seen[1] = DimensionNames
            /\ \A k \in DOMAIN l.seen[1] :
                   l.seen[1][k].n >= 0 /\ l.seen[1][k].n <= 100

\* ------------------------------------------------------------------------
\* C11
\* ------------------------------------------------------------------------

\* The adaptations of step i of the bundle's flow whose dimension_driver is
\* missing or empty
DriverlessAdaptations(variant, i) ==
    LET flow == Get(variant, "flow", <<>>)
        adaptations == Get(flow[i], "adaptations", <<>>)
    IN  {j \in 1..Len(adaptations) :
            \/ "dimension_driver" \notin DOMAIN adaptations[j]
            \/ Render(adaptations[j].dimension_driver) = <<>>}

\* The flags of an audit result whose affected_element begins with `prefix`
FlagsUnder(out, prefix) ==
    {j \in 1..Len(out.risk_flags) :
        Head(out.risk_flags[j].affected_element) = L(prefix)}

\* The flags of an audit result on the flow step with identifier step_id
FlowFlagsOn(out, step_id) ==
    {j \in FlagsUnder(out, "flow.") :
        out.risk_flags[j].affected_element = <<L("flow."), L(step_id)>>}

\* C11: in the non-strict fallback audit every flow-step adaptation without
\* a dimension_driver (missing or empty) has exactly one flag of its own,
\* "medium", naming its flow step, and costs exactly 8 points; a bundle with
\* one such adaptation and no other flag scores 92 with one flag.
C11_DriverlessAdaptationFlag ==
    ~au_strict =>
      \A k \in 1..Len(au_out) :
        LET out == au_out[k]
            flow == Get(au_variant, "flow", <<>>)
            driverless == [i \in 1..Len(flow) |->
                              Cardinality(DriverlessAdaptations(au_variant, i))]
            total == SumOver(driverless, 1..Len(flow))
        IN  /\ \A i \in 1..Len(flow) :
                 /\ Cardinality(FlowFlagsOn(out, flow[i].step_id)) = driverless[i]
                 /\ \A j \in FlowFlagsOn(out, flow[i].step_id) :
                        out.risk_flags[j].severity = "medium"
            /\ Cardinality(FlagsUnder(out, "flow.")) = total
            /\ out.audit_score =
                 Max(0, 100 - 10 * Cardinality(FlagsUnder(out, "copy."))
                            - 5 * Cardinality(FlagsUnder(out, "modules."))
                            - 8 * total)
            /\ (total = 1 /\ Len(out.risk_flags) = Cardinality(FlagsUnder(out, "flow.")))
                  => (out.audit_score = 92 /\ Len(out.risk_flags) = 1)

\* A non-strict audit has run on a bundle one of whose steps has two
\* adaptations without a driver (one missing, one empty) and one with.
C11_Witness ==
    /\ ~au_strict
    /\ Len(au_out) >= 1
    /\ \E i \in 1..Len(Get(au_variant, "flow", <<>>)) :
          Cardinality(DriverlessAdaptations(au_variant, i)) = 2
    /\ Cardinality(FlagsUnder(au_out[1], "flow.")) = 3

\* ------------------------------------------------------------------------
\* C12
\* ------------------------------------------------------------------------

\* The points the flags of an audit result stand for
FlagPoints(out) ==
    10 * Cardinality(FlagsUnder(out, "copy."))
    + 5 * Cardinality(FlagsUnder(out, "modules."))
    + 8 * Cardinality(FlagsUnder(out, "flow."))

\* C12: the fallback audit's score is an integer in [0, 100], strict mode or
\* not, and the score of a bundle that gained a finding (an essentializing
\* match in a copy field, a module without a dimension-linked rationale, a
\* flow adaptation without dimension_driver) is never higher than its score
\* before.
C12_ScoreBoundedMonotone ==
    \A k \in 1..Len(au_out) :
        /\ au_out[k].audit_score \in 0..100
        /\ k > 1 => au_out[k].audit_score <= au_out[k - 1].audit_score

\* A bundle audited at 90 or more gained findings worth more than 100
\* points and is audited at 0.
C12_Witness ==
    /\ Len(au_out) = MaxGrowCalls
    /\ au_out[1].audit_score >= 90
    /\ FlagPoints(au_out[Len(au_out)]) > 100
    /\ au_out[Len(au_out)].audit_score = 0

\* ------------------------------------------------------------------------
\* C13
\* ------------------------------------------------------------------------

\* The latest audit result: the audit of the bundle as it is now
LatestAudit == au_out[Len(au_out)]

\* C13: with D the points of the findings of the non-strict audit of a
\* bundle, the strict audit of the same bundle scores max(0, 100 - D - 10)
\* (the non-strict one max(0, 100 - D)), and has the same flags in the same
\* order on the same elements, the essentializing ones "high" instead of
\* "medium" and the others unchanged.
C13_StrictPenalty ==
    (au_strict /\ au_out # <<>>) =>
        LET out == LatestAudit
            plain == rule_based_audit(au_variant, FALSE)
            D == FlagPoints(plain)
        IN  /\ plain.audit_score = Max(0, 100 - D)
            /\ out.audit_score = Max(0, 100 - D - 10)
            /\ Len(out.risk_flags) = Len(plain.risk_flags)
            /\ \A j \in 1..Len(plain.risk_flags) :
                 /\ out.risk_flags[j].affected_element
                       = plain.risk_flags[j].affected_element
                 /\ out.risk_flags[j].flag_id = plain.risk_flags[j].flag_id
                 /\ out.risk_flags[j].description = plain.risk_flags[j].description
                 /\ IF j \in FlagsUnder(plain, "copy.")
                    THEN /\ plain.risk_flags[j].severity = "medium"
                         /\ out.risk_flags[j].severity = "high"
                    ELSE out.risk_flags[j].severity = plain.risk_flags[j].severity

\* A strict audit of a bundle whose findings are worth 95 points, of copy,
\* a module and none of the flow: the score is 0, not -5.
C13_Witness ==
    /\ au_strict
    /\ au_out # <<>>
    /\ FlagPoints(LatestAudit) = 95
    /\ FlagsUnder(LatestAudit, "modules.") # {}
    /\ LatestAudit.audit_score = 0

\* ------------------------------------------------------------------------
\* C14
\* ------------------------------------------------------------------------

\* The bundle is a final bundle: it records its audit
Assembled == "audit_score" \in DOMAIN au_variant

\* C14: every fallback audit of a bundle with the same strict_mode gives the
\* score and the flags of the first one; and the non-strict fallback audit
\* of the final bundle of a pipeline run gives the audit_score and the
\* risk_flags the bundle records.
C14_ReauditAgrees ==
    /\ \A k \in 1..Len(au_out) :
          /\ au_out[k].audit_score = au_out[1].audit_score
          /\ au_out[k].risk_flags = au_out[1].risk_flags
    /\ Assembled =>
          \A k \in 1..Len(au_out) :
              /\ au_out[k].audit_score = au_variant.audit_score
              /\ au_out[k].risk_flags = au_variant.risk_flags

\* A final bundle recording three flags or more has been audited again.
C14_Witness ==
    /\ Assembled
    /\ Len(au_variant.risk_flags) >= 3
    /\ au_variant.audit_score < 80
    /\ Len(au_out) = 2

\* ------------------------------------------------------------------------
\* Lift harness: _calculate_heuristic_lift on the bundles and audit results
\* it can be handed
\* ------------------------------------------------------------------------
MaxLiftCalls == 1

\* The five module settings the heuristic reads, each on or off
LiftModuleChoices ==
    [reviews : BOOLEAN, guarantees : BOOLEAN, shipping_info : BOOLEAN,
     payment_options : BOOLEAN, social_proof : BOOLEAN]

LiftModules(on) ==
    <<[k |-> "reviews", v |-> PyDict(
         [enabled |-> TRUE,
          placement |-> IF on.reviews THEN "above_fold" ELSE "below_fold"])],
      [k |-> "guarantees", v |-> PyDict(
         [enabled |-> TRUE,
          prominence |-> IF on.guarantees THEN "high" ELSE "medium"])],
      [k |-> "shipping_info", v |-> PyDict(
         [enabled |-> TRUE,
          placement |-> IF on.shipping_info THEN "above_fold" ELSE "product_detail"])],
      [k |-> "payment_options", v |-> PyDict(
         [enabled |-> TRUE, show_installments |-> on.payment_options])],
      [k |-> "social_proof", v |-> PyDict(
         [enabled |-> on.social_proof,
          placement |-> IF on.social_proof THEN "above_fold" ELSE "sidebar"])]>>

\* Flows with no, one and two express_checkout steps
LiftFlows ==
    {<<WithNoAdaptations(BaselineFlow[1]), WithNoAdaptations(BaselineFlow[3])>>,
     <<WithNoAdaptations(BaselineFlow[3]), ExpressCheckoutStep(EmptyDict),
       WithNoAdaptations(BaselineFlow[6])>>,
     <<ExpressCheckoutStep(EmptyDict), WithNoAdaptations(BaselineFlow[3]),
       ExpressCheckoutStep(EmptyDict)>>}

\* Audit results: every score, and a result that carries none
LiftAudits ==
    {<<[k |-> "audit_score", v |-> PyInt(s)],
       [k |-> "risk_flags", v |-> PyList(<<>>)]>> : s \in 0..100}
    \cup {<<[k |-> "risk_flags", v |-> PyList(<<>>)]>>}

InitLift ==
    /\ MrIdle
    /\ AuIdle
    /\ AppIdle
    /\ \E on \in LiftModuleChoices, flow \in LiftFlows :
         lift_variant = [variant_id |-> "var_0", region |-> "JP",
                         flow |-> flow, modules |-> LiftModules(on),
                         cultural_profile |-> EmptyDict]
    /\ lift_audit \in LiftAudits
    /\ lift_out = <<>>
    /\ ux_dimensions = EmptyDict
    /\ ux_base_spec = EmptyDict
    /\ ux_out = <<>>

\* One call of _calculate_heuristic_lift(variant, audit_result)
PredictCall ==
    /\ Len(lift_out) < MaxLiftCalls
    /\ lift_out' = Append(lift_out,
                          calculate_heuristic_lift(lift_variant, lift_audit))
    /\ UNCHANGED <<lift_variant, lift_audit, ux_dimensions, ux_base_spec, ux_out>>
    /\ UNCHANGED <<mr_vars, au_vars, app_vars>>

NextLift == PredictCall

SpecLift == InitLift /\ [][NextLift]_vars

\* ------------------------------------------------------------------------
\* C15: the sign of the predicted lift
\* ------------------------------------------------------------------------
\* The signals of a bundle, read off its modules and flow
SignalsFired(variant) ==
    LET m(name) == OGet(variant.modules, name, PyDict(EmptyDict)).d
    IN  (IF \/ Get(m("reviews"), "placement", "") = "above_fold"
            \/ Get(m("social_proof"), "enabled", FALSE)
         THEN {"social_proof"} ELSE {})
        \cup (IF Get(m("guarantees"), "prominence", "") = "high"
              THEN {"guarantees"} ELSE {})
        \cup (IF Get(m("shipping_info"), "placement", "") = "above_fold"
              THEN {"shipping_info"} ELSE {})
        \cup (IF Get(m("payment_options"), "show_installments", FALSE)
              THEN {"installments"} ELSE {})
        \cup (IF \E i \in 1..Len(variant.flow) :
                    variant.flow[i].step_id = "express_checkout"
              THEN {"checkout_reduction"} ELSE {})

\* The audit score the heuristic discounts by
LiftAuditScore == JGet(lift_audit, "audit_score", 80)

\* C15: lift_percentage is 0 when no signal fires and strictly positive
\* when at least one signal fires and the audit score is above 0, the two
\* roundings included.
C15_AsClaimed ==
    \A i \in 1..Len(lift_out) :
        /\ SignalsFired(lift_variant) = {}
              => lift_out[i].lift_percentage.units = 0
        /\ (SignalsFired(lift_variant) # {} /\ LiftAuditScore > 0)
              => lift_out[i].lift_percentage.units > 0

\* What the code gives: a lift that is never negative, 0 without signals,
\* and positive once factor times score survives the rounding to cents
C15_LiftNeverNegative ==
    \A i \in 1..Len(lift_out) :
        /\ lift_out[i].lift_percentage.units >= 0
        /\ SignalsFired(lift_variant) = {}
              => lift_out[i].lift_percentage.units = 0
        /\ (SignalsFired(lift_variant) # {} /\ LiftAuditScore >= 6)
              => lift_out[i].lift_percentage.units > 0

\* ------------------------------------------------------------------------
\* C16: the baseline of the prediction
\* ------------------------------------------------------------------------
\* The run has assembled its bundle
Predicted(l) == l.variant_spec # Unset

\* C16: the baseline a run's prediction reports is the BASELINE_RATES entry
\* of the run's product category, for the categories the table lists.
C16_AsClaimed ==
    \A r \in RunIds :
        LET l == run[r]
        IN  (Predicted(l) /\ l.req.product_category \in DOMAIN BASELINE_RATES) =>
                l.variant_spec.predicted_lift.baseline =
                    Dec(BASELINE_RATES[l.req.product_category], 2)

\* What the code gives: the same baseline, 2.3, whatever the category
C16_BaselineFixed ==
    \A r \in RunIds :
        Predicted(run[r]) =>
            run[r].variant_spec.predicted_lift.baseline = Dec(BaselineHundredths, 2)

\* ------------------------------------------------------------------------
\* C17: each signal is applied once
\* ------------------------------------------------------------------------
\* The rule names under which each signal is entered in applied_factors
SignalRules ==
    [social_proof |-> {L("Social proof emphasis"), L("Social proof module")},
     guarantees |-> {L("Enhanced guarantees")},
     shipping_info |-> {L("Trust modules above fold")},
     installments |-> {L("Value/installment framing")},
     checkout_reduction |-> {L("Checkout step reduction")}]

\* The entries of a prediction's applied_factors entered for a signal
EntriesFor(out, signal) ==
    {i \in 1..Len(out.applied_factors) :
        out.applied_factors[i].rule \in SignalRules[signal]}

\* The factor an entry reports, in percent: "+6.0%" is 6
EntryFactors(out) ==
    [i \in 1..Len(out.applied_factors) |->
        [factor |-> out.applied_factors[i].lift[2].dec.units \div 10]]

\* C17: applied_factors has exactly one entry for each signal that fired and
\* none for the others, whether the social proof signal came from the
\* reviews, the social_proof module or both and however many
\* express_checkout steps the flow has; the predicted rate is the baseline
\* compounded by exactly the entries' factors.
C17_EachSignalOnce ==
    \A i \in 1..Len(lift_out) :
        LET out == lift_out[i]
        IN  /\ \A signal \in DOMAIN SignalRules :
                   Cardinality(EntriesFor(out, signal)) =
                       (IF signal \in SignalsFired(lift_variant) THEN 1 ELSE 0)
            /\ Len(out.applied_factors) = Cardinality(SignalsFired(lift_variant))
            /\ out.predicted =
                  Dec(PredictedHundredths(EntryFactors(out), LiftAuditScore), 2)

\* Reviews above the fold with the social_proof module enabled and two
\* express_checkout steps: one social proof entry, one checkout entry
C17_Witness ==
    /\ lift_out # <<>>
    /\ ModuleField(lift_variant.modules, "reviews", "placement", "") = "above_fold"
    /\ ModuleField(lift_variant.modules, "social_proof", "enabled", FALSE)
    /\ Cardinality({i \in 1..Len(lift_variant.flow) :
                       lift_variant.flow[i].step_id = "express_checkout"}) = 2
    /\ Cardinality(EntriesFor(lift_out[1], "social_proof")) = 1
    /\ Cardinality(EntriesFor(lift_out[1], "checkout_reduction")) = 1
    /\ LiftAuditScore = 100
    /\ lift_out[1].predicted.units > BaselineHundredths

\* ------------------------------------------------------------------------
\* C18: the confidence level
\* ------------------------------------------------------------------------
\* C18: confidence_level is "high" exactly when at least 4 signals fired
\* and the audit score is at least 80, "medium" exactly when that does not
\* hold and at least 2 signals fired and the score is at least 60, and
\* "low" in every other case.
C18_ConfidenceLevel ==
    \A i \in 1..Len(lift_out) :
        LET n == Cardinality(SignalsFired(lift_variant))
            level == lift_out[i].confidence_level
            high == n >= 4 /\ LiftAuditScore >= 80
            medium == ~high /\ n >= 2 /\ LiftAuditScore >= 60
        IN  /\ level = <<L("high")>> <=> high
            /\ level = <<L("medium")>> <=> medium
            /\ level = <<L("low")>> <=> (~high /\ ~medium)

\* Four signals at exactly 80: high
C18_Witness ==
    /\ lift_out # <<>>
    /\ Cardinality(SignalsFired(lift_variant)) = 4
    /\ JHas(lift_audit, "audit_score")
    /\ LiftAuditScore = 80
    /\ lift_out[1].confidence_level = <<L("high")>>

\* ------------------------------------------------------------------------
\* UX harness: _rule_based_adaptation on profiles around its thresholds and
\* on the base specs adapt can hand it
\* ------------------------------------------------------------------------
MaxUxCalls == 1

\* A dimension the profile does not carry
NoValue == [n |-> -1, float |-> FALSE]

UxChoices ==
    [friction_tolerance : {NoValue, IntNum(35), FloatNum(35), IntNum(40), IntNum(41)},
     collectivism : {NoValue, IntNum(64), IntNum(65)},
     trust_need : {IntNum(74), IntNum(75)},
     uncertainty_avoidance : {IntNum(69), IntNum(70)},
     context_level : {IntNum(35), IntNum(36)},
     price_sensitivity : {IntNum(69), IntNum(70)},
     authority_distance : {IntNum(50)}]

UxProfile(c) == [k \in {d \in DOMAIN c : c[d] # NoValue} |-> c[k]]

UxBaseSpecs == {ProductBaselines["electronics"], default_base_spec}

InitUx ==
    /\ MrIdle
    /\ AuIdle
    /\ AppIdle
    /\ lift_variant = EmptyDict
    /\ lift_audit = EmptyDict
    /\ lift_out = <<>>
    /\ \E c \in UxChoices : ux_dimensions = UxProfile(c)
    /\ ux_base_spec \in UxBaseSpecs
    /\ ux_out = <<>>

\* One call of _rule_based_adaptation(dimensions, rules, base_spec, price_band)
AdaptCall ==
    /\ Len(ux_out) < MaxUxCalls
    /\ ux_out' = Append(ux_out,
                        rule_based_adaptation(ux_dimensions, <<>>, ux_base_spec, "mid"))
    /\ UNCHANGED <<ux_dimensions, ux_base_spec, lift_variant, lift_audit, lift_out>>
    /\ UNCHANGED <<mr_vars, au_vars, app_vars>>

\* run_adaptation_pipeline between its UX stage and its audit, every stage on
\* its fallback: the copy is generated from the same profile and the base
\* spec's baseline_copy, and the partial bundle is assembled.
FallbackBundle ==
    /\ ux_out # <<>>
    /\ au_variant = EmptyDict
    /\ au_variant' =
          [variant_id |-> "var_0",
           region |-> "JP",
           theme_emphasis |-> JGet(ux_out[1], "theme_emphasis", <<L("balanced")>>),
           flow |-> JGet(ux_out[1], "flow", <<>>),
           modules |-> JGet(ux_out[1], "modules", <<>>),
           copy |-> rule_based_copy(ux_dimensions,
                                    Get(ux_base_spec, "baseline_copy", EmptyDict)),
           cultural_profile |->
              [country_code |-> "JP", dimensions |-> ux_dimensions,
               evidence |-> LoadedPriors["JP"].evidence,
               notes |-> LoadedPriors["JP"].notes]]
    /\ UNCHANGED <<au_strict, au_out>>
    /\ UNCHANGED <<mr_vars, app_vars, fn_vars>>

\* The audit of the assembled bundle
AuditBundle ==
    /\ au_variant # EmptyDict
    /\ AuditCall

NextUx == AdaptCall \/ FallbackBundle \/ AuditBundle

SpecUx == InitUx /\ [][NextUx]_vars

\* ------------------------------------------------------------------------
\* C19: the streamlined checkout
\* ------------------------------------------------------------------------
\* The value the fallback reads for a dimension
UxValue(k) == Get(ux_dimensions, k, IntNum(50))

\* What identifies a step: its id, name and description
StepIdentity(step) ==
    [step_id |-> step.step_id, name |-> step.name, description |-> step.description]

\* The steps of a flow outside a set of step ids, in order
RECURSIVE StepsOutside(_, _)
StepsOutside(flow, ids) ==
    IF flow = <<>> THEN <<>>
    ELSE (IF Head(flow).step_id \in ids THEN <<>> ELSE <<StepIdentity(Head(flow))>>)
         \o StepsOutside(Tail(flow), ids)

\* The express_checkout steps of a flow
ExpressSteps(flow) ==
    {i \in 1..Len(flow) : flow[i].step_id = "express_checkout"}

\* The adaptation cites the friction value the profile carries
CitesFriction(adaptation) ==
    /\ "dimension_driver" \in DOMAIN adaptation
    /\ StartsWith(Render(adaptation.dimension_driver),
                  Render(<<L("friction_tolerance="), N(UxValue("friction_tolerance").n)>>))

\* The claim's two cases for one output flow and the baseline flow it was
\* made from
StreamlinedAsClaimed(flow, base) ==
    IF UxValue("friction_tolerance").n <= 40
    THEN /\ Cardinality(ExpressSteps(flow)) = 1
         /\ \A i \in ExpressSteps(flow) :
                /\ flow[i].adaptations # <<>>
                /\ \A a \in 1..Len(flow[i].adaptations) :
                       CitesFriction(flow[i].adaptations[a])
         /\ \A i \in 1..Len(flow) : flow[i].step_id \notin {"shipping", "payment"}
         /\ StepsOutside(flow, {"express_checkout"}) =
                StepsOutside(base, {"shipping", "payment"})
    ELSE /\ Len(flow) = Len(base)
         /\ \A i \in 1..Len(flow) :
                /\ StepIdentity(flow[i]) = StepIdentity(base[i])
                /\ flow[i].adaptations = <<>>

\* C19: for the category baseline and for the default base spec, a
\* friction_tolerance of at most 40 gives a flow with exactly one
\* express_checkout step citing the friction value, no shipping or payment
\* step and the other baseline steps in order; above 40 the flow is the
\* baseline flow in order, no step adapted.
C19_AsClaimed ==
    \A i \in 1..Len(ux_out) :
        StreamlinedAsClaimed(JGet(ux_out[i], "flow", <<>>), ux_base_spec.baseline_flow)

\* What the code gives: the claim's two cases for a baseline flow that has
\* a shipping step
C19_WithShippingStep ==
    \A i \in 1..Len(ux_out) :
        (\E s \in 1..Len(ux_base_spec.baseline_flow) :
            ux_base_spec.baseline_flow[s].step_id = "shipping")
        => StreamlinedAsClaimed(JGet(ux_out[i], "flow", <<>>),
                                ux_base_spec.baseline_flow)

\* ------------------------------------------------------------------------
\* C20: the module configuration
\* ------------------------------------------------------------------------
\* The configuration of one module of an output
UxModule(out, name) == OGet(JGet(out, "modules", <<>>), name, PyDict(EmptyDict)).d

\* The module's rationale is not empty and names a dimension with the value
\* the fallback read for it
NamesDimension(module, label, k) ==
    /\ "adaptation_rationale" \in DOMAIN module
    /\ Render(module.adaptation_rationale) # <<>>
    /\ Contains(Render(module.adaptation_rationale),
                Render(<<label, N(UxValue(k).n)>>))

\* C20: the six modules are set from the profile by the thresholds
\* (collectivism >= 65, trust_need >= 75, uncertainty_avoidance >= 70,
\* context_level <= 35, price_sensitivity >= 70), and each carries a
\* rationale naming its driving dimension and that dimension's value.
C20_ModuleConfiguration ==
    \A i \in 1..Len(ux_out) :
        LET out == ux_out[i]
            reviews == UxModule(out, "reviews")
            guarantees == UxModule(out, "guarantees")
            shipping_info == UxModule(out, "shipping_info")
            returns == UxModule(out, "returns")
            payment_options == UxModule(out, "payment_options")
            social_proof == UxModule(out, "social_proof")
        IN  /\ OKeys(JGet(out, "modules", <<>>)) =
                  {"reviews", "guarantees", "shipping_info", "returns",
                   "payment_options", "social_proof"}
            /\ (reviews.placement = "above_fold" /\ reviews.style = "community")
                  <=> UxValue("collectivism").n >= 65
            /\ (reviews.placement = "above_fold" \/ reviews.style = "community")
                  => UxValue("collectivism").n >= 65
            /\ (/\ guarantees.prominence = "high"
                /\ guarantees.types = <<"money-back guarantee", "authenticity guarantee",
                                        "secure payment", "official warranty">>)
                  <=> UxValue("trust_need").n >= 75
            /\ (guarantees.prominence = "high" \/ Len(guarantees.types) > 2)
                  => UxValue("trust_need").n >= 75
            /\ shipping_info.placement = "above_fold"
                  <=> UxValue("uncertainty_avoidance").n >= 70
            /\ returns.prominence = "high"
                  <=> UxValue("uncertainty_avoidance").n >= 70
            /\ shipping_info.detail_level = "detailed"
                  <=> UxValue("context_level").n <= 35
            /\ payment_options.show_installments
                  <=> UxValue("price_sensitivity").n >= 70
            /\ NamesDimension(reviews, L("Collectivism="), "collectivism")
            /\ NamesDimension(guarantees, L("Trust need="), "trust_need")
            /\ NamesDimension(shipping_info, L("UA="), "uncertainty_avoidance")
            /\ NamesDimension(shipping_info, L("CL="), "context_level")
            /\ NamesDimension(returns, L("UA="), "uncertainty_avoidance")
            /\ NamesDimension(payment_options, L("Price sensitivity="), "price_sensitivity")
            /\ NamesDimension(social_proof, L("Collectivism="), "collectivism")

\* Every threshold met exactly, on a profile that carries all of them
C20_Witness ==
    /\ ux_out # <<>>
    /\ "collectivism" \in DOMAIN ux_dimensions
    /\ UxValue("collectivism").n = 65
    /\ UxValue("trust_need").n = 75
    /\ UxValue("uncertainty_avoidance").n = 70
    /\ UxValue("context_level").n = 35
    /\ UxValue("price_sensitivity").n = 70
    /\ UxModule(ux_out[1], "reviews").placement = "above_fold"
    /\ UxModule(ux_out[1], "guarantees").prominence = "high"
    /\ UxModule(ux_out[1], "shipping_info").detail_level = "detailed"
    /\ UxModule(ux_out[1], "returns").prominence = "high"
    /\ UxModule(ux_out[1], "payment_options").show_installments

\* ------------------------------------------------------------------------
\* C21: the theme emphasis
\* ------------------------------------------------------------------------
\* The theme labels in their fixed order, each with the threshold test that
\* triggers it
ThemeLabels ==
    <<[label |-> L("trust-first"), crossed |-> UxValue("trust_need").n >= 75],
      [label |-> L("efficiency-driven"), crossed |-> UxValue("friction_tolerance").n <= 40],
      [label |-> L("community-validated"), crossed |-> UxValue("collectivism").n >= 65],
      [label |-> L("information-rich"), crossed |-> UxValue("context_level").n <= 35],
      [label |-> L("value-oriented"), crossed |-> UxValue("price_sensitivity").n >= 70]>>

\* The characters of the triggered labels, in order, joined by ", "
RECURSIVE JoinedLabels(_, _)
JoinedLabels(labels, first) ==
    IF labels = <<>> THEN <<>>
    ELSE IF ~Head(labels).crossed THEN JoinedLabels(Tail(labels), first)
    ELSE (IF first THEN <<>> ELSE Render(<<L(", ")>>))
         \o Render(<<Head(labels).label>>)
         \o JoinedLabels(Tail(labels), FALSE)

\* The profile crosses one of the thresholds that trigger an adaptation
CrossesThreshold ==
    \/ UxValue("friction_tolerance").n <= 40
    \/ UxValue("collectivism").n >= 65
    \/ UxValue("trust_need").n >= 75
    \/ UxValue("uncertainty_avoidance").n >= 70
    \/ UxValue("context_level").n <= 35
    \/ UxValue("price_sensitivity").n >= 70

\* The theme_emphasis of an output, as characters
ThemeChars(out) == Render(JGet(out, "theme_emphasis", <<>>))

\* C21: theme_emphasis is the triggered theme labels in their fixed order,
\* and it is "balanced" if and only if the profile crosses none of the six
\* thresholds that trigger an adaptation.
C21_AsClaimed ==
    \A i \in 1..Len(ux_out) :
        /\ JoinedLabels(ThemeLabels, TRUE) # <<>>
              => ThemeChars(ux_out[i]) = JoinedLabels(ThemeLabels, TRUE)
        /\ ThemeChars(ux_out[i]) = Render(<<L("balanced")>>) <=> ~CrossesThreshold

\* What the code gives: the triggered labels in order, and "balanced" if
\* and only if none of the five thresholds that have a label is crossed
C21_LabelledThresholds ==
    \A i \in 1..Len(ux_out) :
        ThemeChars(ux_out[i]) =
            (IF JoinedLabels(ThemeLabels, TRUE) # <<>>
             THEN JoinedLabels(ThemeLabels, TRUE)
             ELSE Render(<<L("balanced")>>))

\* ------------------------------------------------------------------------
\* C22: the fallback bundle passes the fallback audit
\* ------------------------------------------------------------------------
\* C22: the bundle assembled from the UX fallback and the copy fallback, for
\* any profile and a baseline copy free of the essentializing patterns, is
\* audited by the non-strict fallback audit with score 100 and no risk flag.
C22_FallbackBundleClean ==
    \A i \in 1..Len(au_out) :
        (ux_out # <<>> /\ ~au_strict) =>
            /\ au_out[i].audit_score = 100
            /\ au_out[i].risk_flags = <<>>

\* A profile that streamlines the checkout and crosses every other
\* threshold, on the category baseline: audited, 100, no flag
C22_Witness ==
    /\ ux_out # <<>>
    /\ au_out # <<>>
    /\ "baseline_copy" \in DOMAIN ux_base_spec
    /\ UxValue("friction_tolerance").n <= 40
    /\ UxValue("collectivism").n >= 65
    /\ UxValue("trust_need").n >= 75
    /\ UxValue("uncertainty_avoidance").n >= 70
    /\ UxValue("context_level").n <= 35
    /\ UxValue("price_sensitivity").n >= 70
    /\ ExpressSteps(au_variant.flow) # {}
    /\ OKeys(au_variant.copy) # {}
    /\ au_out[1].audit_score = 100

\* ------------------------------------------------------------------------
\* C23: the order of the stages
\* ------------------------------------------------------------------------
\* How far a run has come: the stage it is suspended in, or its end
StageRank(pc) ==
    CASE pc = "idle" -> 0
      [] pc = "analyze" -> 1
      [] pc = "adapt" -> 2
      [] pc = "generate" -> 3
      [] pc = "audit" -> 4
      [] pc = "predict" -> 5
      [] OTHER -> 6

\* The run ended in an exception
Aborted(l) == l.pc \in {"raised", "failed"}

\* A run that is in a stage, or has returned, holds the outputs of all the
\* stages before and none of the stages after; the bundle the audit was
\* given is made of the earlier stages' outputs, and the prediction was
\* computed from that bundle and the run's audit result.
StageOutputsInOrder(l) ==
    /\ StageRank(l.pc) < 2 =>
          /\ l.cultural_profile = Unset
          /\ l.applicable_rules = <<>>
    /\ (StageRank(l.pc) >= 2 /\ ~Aborted(l)) => l.cultural_profile # Unset
    /\ StageRank(l.pc) < 3 => l.ux_adaptations = <<>>
    /\ (StageRank(l.pc) >= 3 /\ ~Aborted(l)) => l.ux_adaptations # <<>>
    /\ StageRank(l.pc) < 4 =>
          /\ l.copy_variants = <<>>
          /\ l.partial_variant = Unset
    /\ (StageRank(l.pc) >= 4 /\ ~Aborted(l)) => l.copy_variants # <<>>
    /\ l.partial_variant # Unset =>
          /\ l.partial_variant.flow = JGet(l.ux_adaptations, "flow", <<>>)
          /\ l.partial_variant.modules = JGet(l.ux_adaptations, "modules", <<>>)
          /\ l.partial_variant.copy = l.copy_variants
          /\ l.partial_variant.cultural_profile = l.cultural_profile
          /\ l.partial_variant.variant_id = l.variant_id
    /\ StageRank(l.pc) < 5 =>
          /\ l.audit_result = <<>>
          /\ l.heuristic = Unset
    /\ (StageRank(l.pc) >= 5 /\ ~Aborted(l)) => l.audit_result # <<>>
    /\ l.heuristic # Unset =>
          l.heuristic = calculate_heuristic_lift(l.partial_variant, l.audit_result)
    /\ l.variant_spec # Unset =>
          /\ l.pc = "done"
          /\ l.heuristic # Unset
          /\ l.variant_spec.predicted_lift.predicted = l.heuristic.predicted

\* A step takes no run back to an earlier stage and changes no output a
\* stage has produced
StagesAdvance ==
    \A r \in RunIds :
        /\ StageRank(run'[r].pc) >= StageRank(run[r].pc)
        /\ run[r].ux_adaptations # <<>> =>
              run'[r].ux_adaptations = run[r].ux_adaptations
        /\ run[r].copy_variants # <<>> =>
              run'[r].copy_variants = run[r].copy_variants
        /\ run[r].partial_variant # Unset =>
              run'[r].partial_variant = run[r].partial_variant
        /\ run[r].audit_result # <<>> =>
              run'[r].audit_result = run[r].audit_result

\* C23: the stages of a run execute in the order Resolver, UX, copy, audit,
\* prediction; no stage starts before the one before it has produced its
\* output; the audit is given the flow, modules, copy and profile the
\* earlier stages produced and the prediction the audit result of the run.
C23_StagesInOrder ==
    /\ [](\A r \in RunIds : StageOutputsInOrder(run[r]))
    /\ [][StagesAdvance]_vars

\* A run suspended in the prediction's gateway call after four stages that
\* ended differently
C23_Witness ==
    /\ run[1].pc = "predict"
    /\ run[1].outcome["adapt"] = "json"
    /\ run[1].outcome["generate"] = "exception"
    /\ run[1].outcome["audit"] = "json"
    /\ run[1].heuristic # Unset
    /\ run[1].partial_variant.copy = run[1].copy_variants

\* ------------------------------------------------------------------------
\* C24: a run that fails stores nothing
\* ------------------------------------------------------------------------
\* Run r has ended in an exception, and every other run had stored its
\* bundle before r's request arrived: what has happened to the store since
\* is r's doing alone.
FailedAfterTheOthers(r) ==
    /\ run[r].pc = "failed"
    /\ \A q \in RunIds \ {r} :
          /\ run[q].pc = "done"
          /\ run[q].variant_id \in DOMAIN run[r].store_before

\* C24: a run aborted by an exception of a stage's own logic leaves the
\* store as it was: nothing is stored under its identifier and the bundles
\* of earlier runs are what they were.
C24_AsClaimed ==
    \A r \in RunIds :
        FailedAfterTheOthers(r) =>
            StoreContent(cultural_priors, variant_store) = run[r].store_before

\* What the code gives: the failed run adds no identifier to the store, and
\* without overrides of its own it leaves every stored bundle as it was
C24_NothingStored ==
    \A r \in RunIds :
        FailedAfterTheOthers(r) =>
            /\ DOMAIN variant_store = DOMAIN run[r].store_before
            /\ run[r].variant_spec = Unset
            /\ run[r].overrides = EmptyDict =>
                  StoreContent(cultural_priors, variant_store) = run[r].store_before


\* ------------------------------------------------------------------------
\* C26: identifiers of runs and the writes to the store
\* ------------------------------------------------------------------------

\* The runs that have been given an identifier
StartedRuns == {r \in RunIds : run[r].pc # "idle"}

\* The bundle run r's request stored is the one the store holds under r's
\* identifier.
BundleKept(r) ==
    /\ run[r].variant_id \in DOMAIN variant_store
    /\ variant_store[run[r].variant_id] = run[r].variant_spec

\* C26: every run's identifier differs from every other run's, so no
\* identifier is written to the store twice and the bundle a completed run
\* stored is never replaced by the bundle of another run.
C26_AsClaimed ==
    /\ \A r \in StartedRuns : \A q \in StartedRuns :
          r # q => run[r].variant_id # run[q].variant_id
    /\ \A r \in RunIds : run[r].pc = "done" => BundleKept(r)

\* The part of C26 about the store alone
C26_StoredBundleKept ==
    \A r \in RunIds : run[r].pc = "done" => BundleKept(r)


\* ------------------------------------------------------------------------
\* C27: a region without a stored prior
\* ------------------------------------------------------------------------

\* Run l was requested for a region no prior is stored for.
WithoutPrior(l) ==
    /\ l.pc # "idle"
    /\ l.req.country_code \notin DOMAIN LoadedPriors

\* The profile is the neutral one: seven dimensions at 50, one synthetic
\* evidence entry, a note that says so.
NeutralProfile(priors, profile) ==
    /\ LET dimensions == Deref(priors, profile.dimensions)
       IN  /\ DOMAIN dimensions = DimensionNames
           /\ \A k \in DimensionNames : dimensions[k] = IntNum(50)
    /\ Len(profile.evidence) = 1
    /\ profile.evidence[1].source = "Default baseline"
    /\ StartsWith(Render(profile.notes), Render(<<L("No cultural priors available for ")>>))

\* C27: for a region without a stored prior analyze neither fails nor calls
\* the gateway; it returns the neutral profile (seven dimensions at 50, one
\* synthetic evidence entry, an explanatory note), and every later stage of
\* the run reads that profile, which the returned bundle carries.
C27_NeutralProfile ==
    \A r \in RunIds :
       WithoutPrior(run[r]) =>
          /\ run[r].pc \notin {"analyze", "raised", "failed"}
          /\ run[r].outcome["analyze"] = "none"
          /\ run[r].base_prior = IdleRun.base_prior
          /\ NeutralProfile(cultural_priors, run[r].cultural_profile)
          /\ \A i \in DOMAIN run[r].seen :
                \A k \in DimensionNames : run[r].seen[i][k] = IntNum(50)
          /\ run[r].pc = "done" =>
                /\ run[r].variant_spec.cultural_profile = run[r].cultural_profile
                /\ run[r].variant_spec.region = run[r].req.country_code

\* A run for a region without a prior went through the four later gateway
\* calls and returned its bundle.
C27_Witness ==
    /\ WithoutPrior(run[1])
    /\ run[1].pc = "done"
    /\ run[1].outcome["adapt"] = "json"
    /\ run[1].outcome["predict"] # "none"
    /\ Len(run[1].seen) > 2


\* ------------------------------------------------------------------------
\* C28: the audit score of the bundle and the one the lift is discounted by
\* ------------------------------------------------------------------------

\* The heuristic of run l discounts by `score` and quotes it in its
\* assumptions and its rationale.
DiscountedBy(l, score) ==
    /\ l.heuristic.predicted =
          Dec(PredictedHundredths(applied_factors(l.partial_variant), score), 2)
    /\ l.heuristic.assumptions[5] =
          <<L("Audit score ("), N(score),
            L("/100) applied as confidence multiplier")>>
    /\ l.heuristic.rationale[7] = N(score)

\* C28: in every returned bundle the audit score the predicted lift is
\* discounted by, and that the heuristic quotes, is the bundle's
\* audit_score, whatever the audit stage ended in.
C28_AsClaimed ==
    \A r \in RunIds :
       Predicted(run[r]) => DiscountedBy(run[r], run[r].variant_spec.audit_score)

\* What the code gives: the two agree when the audit result carries an
\* audit_score; without one the lift is discounted by 80 and the bundle
\* reports 0.
C28_WhenScored ==
    \A r \in RunIds :
       Predicted(run[r]) =>
          IF JHas(run[r].audit_result, "audit_score")
          THEN DiscountedBy(run[r], run[r].variant_spec.audit_score)
          ELSE /\ DiscountedBy(run[r], 80)
               /\ run[r].variant_spec.audit_score = 0


\* ------------------------------------------------------------------------
\* C29: the numbers of the prediction and the gateway
\* ------------------------------------------------------------------------

\* The four numeric fields of a prediction
Numbers(prediction) ==
    [metric |-> prediction.metric, baseline |-> prediction.baseline,
     predicted |-> prediction.predicted,
     lift_percentage |-> prediction.lift_percentage]

\* C29: metric, baseline, predicted and lift_percentage of the prediction
\* are those the heuristic computes from the bundle and the audit result
\* alone, whatever the gateway call of predict ended in (not configured, an
\* exception, empty content, text that is not JSON, an enrichment with or
\* without confidence_level): two runs with the same bundle and audit result
\* report the same numbers.
C29_NumbersFromHeuristic ==
    \A r \in RunIds :
       Predicted(run[r]) =>
          Numbers(run[r].variant_spec.predicted_lift) =
             Numbers(calculate_heuristic_lift(run[r].partial_variant,
                                              run[r].audit_result))

\* The gateway's enrichment replaced the heuristic's text in a prediction
\* of a positive lift.
C29_Witness ==
    /\ Predicted(run[1])
    /\ run[1].outcome["predict"] = "json"
    /\ run[1].variant_spec.predicted_lift.method # run[1].heuristic.method
    /\ run[1].variant_spec.predicted_lift.lift_percentage.units > 0


\* ------------------------------------------------------------------------
\* C30: the comparator of a condition
\* ------------------------------------------------------------------------

\* Rule i of the table is on a dimension of the profile, whose value is
\* exactly the rule's threshold.
AtThreshold(i) ==
    /\ mr_written[i].dimension \in DOMAIN mr_dims
    /\ mr_dims[mr_written[i].dimension].n = mr_written[i].thr

\* Rule i of the table is in the sequence the call returned.
Returned(out, i) ==
    \E j \in 1..Len(out.val) : out.val[j] = mr_rules[i]

\* C30: a condition written ">=T" or "<=T" is evaluated inclusively and one
\* written ">T" or "<T" strictly: at a value equal to T the former is
\* returned and the latter is not. A rule whose condition begins with none of
\* the four comparators is never returned, and the call does not raise on it.
C30_ComparatorUnambiguous ==
    \A k \in 1..Len(mr_out) :
        /\ ~mr_out[k].raised
        /\ \A i \in 1..Len(mr_rules) :
              /\ (AtThreshold(i) /\ mr_written[i].cmp \in {<<">", "=">>, <<"<", "=">>})
                    => Returned(mr_out[k], i)
              /\ (AtThreshold(i) /\ mr_written[i].cmp \in {<<">">>, <<"<">>})
                    => ~Returned(mr_out[k], i)
              /\ (/\ ~StartsWith(mr_rules[i].condition, <<">">>)
                  /\ ~StartsWith(mr_rules[i].condition, <<"<">>))
                    => ~Returned(mr_out[k], i)

\* A call was made on a table whose first rule is written "==T" on a
\* dimension of the profile and whose second is "<=T" met at equality: only
\* the second was returned.
C30_Witness ==
    /\ Len(mr_out) >= 1
    /\ Len(mr_rules) = 2
    /\ mr_written[1].cmp = <<"=", "=">>
    /\ mr_written[1].dimension \in DOMAIN mr_dims
    /\ mr_written[2].cmp = <<"<", "=">>
    /\ AtThreshold(2)
    /\ mr_out[1].val = <<mr_rules[2]>>

=============================================================================
